---- MODULE Spec2Model ----
(***************************************************************************)
(* Navigation coordinator of the Ellie front end (src/frontend/App.tsx,    *)
(* second listing, lines 668-1352) with the geometry utilities of          *)
(* src/frontend/services/navigationService.ts.                             *)
(*                                                                         *)
(* The React component is modelled as a state machine.  One step is one    *)
(* callback of the component (a click handler, a geolocation callback, the *)
(* continuation of an awaited backend call) followed by the re-render and  *)
(* the passive effects it causes, repeated until no state changes.         *)
(* Callbacks read the state of the render that created them (their         *)
(* closure) and write the current state through the state setters.         *)
(*                                                                         *)
(* Representation:                                                         *)
(*   - an optional value is a sequence, <<>> for null/undefined and <<v>>  *)
(*     for v; gpsWatchId uses 0 for null (browser watch ids start at 1);   *)
(*   - pixel coordinates are integers, geographic coordinates are integers *)
(*     in units of 1e-7 degree; the inputs are chosen so that the linear   *)
(*     range mapping is exact on them;                                     *)
(*   - distances are compared through their squares;                       *)
(*   - status texts are short tags, one per message of the source;         *)
(*   - watch ids are modelled up to renaming: a new watch takes the        *)
(*     smallest id that is not registered.                                 *)
(***************************************************************************)
EXTENDS Integers, Sequences, FiniteSets, TLC

\* ------------------------------------------------------------------ bounds
MaxUploads == 2
MaxRequests == 2

\* --------------------------------------------------------- program constants
MARKER_SIZE == 20
ARRIVAL_THRESHOLD_PIXELS == 25
NW_LAT == 340529000
NW_LON == 0 - 1182445000
SE_LAT == 340520000
SE_LON == 0 - 1182425000
DEFAULT_WIDTH == 800
DEFAULT_HEIGHT == 600

FLOOR_PLAN_GEO_BOUNDS ==
  [northWest |-> [latitude |-> NW_LAT, longitude |-> NW_LON],
   southEast |-> [latitude |-> SE_LAT, longitude |-> SE_LON]]

\* ------------------------------------------------------------ option values
None == <<>>
Some(v) == <<v>>

Pt(x, y) == [x |-> x, y |-> y]

\* --------------------------------------------------------- geometry utilities
Min2(a, b) == IF a < b THEN a ELSE b
Max2(a, b) == IF a > b THEN a ELSE b

\* Square of calculateDistance: the square root is monotone, so d < t is
\* Dist2 < t*t and d > t is Dist2 > t*t for t >= 0.
Dist2(p1, p2) == (p1.x - p2.x) * (p1.x - p2.x) + (p1.y - p2.y) * (p1.y - p2.y)

\* Variant: a later elevator replaces the best one at an equal distance.
RECURSIVE NearestFromLastOnTie(_, _, _, _)
NearestFromLastOnTie(userLoc, elevators, i, best) ==
  IF i > Len(elevators) THEN best
  ELSE IF best = None \/ Dist2(userLoc, elevators[i].location) <= Dist2(userLoc, best[1].location)
       THEN NearestFromLastOnTie(userLoc, elevators, i + 1, Some(elevators[i]))
       ELSE NearestFromLastOnTie(userLoc, elevators, i + 1, best)

RECURSIVE NearestFrom(_, _, _, _)
NearestFrom(userLoc, elevators, i, best) ==
  IF i > Len(elevators) THEN best
  ELSE IF best = None \/ Dist2(userLoc, elevators[i].location) < Dist2(userLoc, best[1].location)
       THEN NearestFrom(userLoc, elevators, i + 1, Some(elevators[i]))
       ELSE NearestFrom(userLoc, elevators, i + 1, best)

\* Variant: the first elevator of the plan is taken, whatever its distance.
findFirstElevator(userLoc, elevators) ==
  IF Len(elevators) = 0 THEN None ELSE Some(elevators[1])

findNearestElevator(userLoc, elevators) ==
  IF Len(elevators) = 0 THEN None ELSE NearestFrom(userLoc, elevators, 1, None)

\* Variant: the line is drawn from the end point to the start point.
calculatePathReversed(start, end) == <<end, start>>

calculatePath(start, end) == <<start, end>>

\* Quotient of the range mapping (exact on the inputs of the model).
Quot(a, b) == IF b < 0 THEN (0 - a) \div (0 - b) ELSE a \div b

\* Variant: a collapsed input range maps to the start of the output range.
mapRangeCollapsedToMin(value, inMin, inMax, outMin, outMax) ==
  IF inMin = inMax THEN outMin
  ELSE Quot((value - inMin) * (outMax - outMin), inMax - inMin) + outMin

\* Variant: the value is measured from the end of the input range.
mapRangeReversed(value, inMin, inMax, outMin, outMax) ==
  IF inMin = inMax THEN outMin + (outMax - outMin) \div 2
  ELSE Quot((inMax - value) * (outMax - outMin), inMax - inMin) + outMin

mapRange(value, inMin, inMax, outMin, outMax) ==
  IF inMin = inMax THEN outMin + (outMax - outMin) \div 2
  ELSE Quot((value - inMin) * (outMax - outMin), inMax - inMin) + outMin

\* Variant: a point on the border of the bounds is rejected as well.
mapGeoToPixelRejectingBorder(geoPoint, bounds, dims) ==
  LET isLatOutOfBounds == geoPoint.latitude >= bounds.northWest.latitude
                          \/ geoPoint.latitude <= bounds.southEast.latitude
      isLonOutOfBounds == geoPoint.longitude <= bounds.northWest.longitude
                          \/ geoPoint.longitude >= bounds.southEast.longitude
      x == mapRange(geoPoint.longitude, bounds.northWest.longitude, bounds.southEast.longitude, 0, dims.width)
      y == mapRange(geoPoint.latitude, bounds.northWest.latitude, bounds.southEast.latitude, 0, dims.height)
  IN IF isLatOutOfBounds \/ isLonOutOfBounds THEN None
     ELSE Some(Pt(Max2(0, Min2(x, dims.width)), Max2(0, Min2(y, dims.height))))

\* Variant: the longitude is scaled onto the height of the image and the
\* latitude onto its width.
mapGeoToPixelSwappedDims(geoPoint, bounds, dims) ==
  LET isLatOutOfBounds == geoPoint.latitude > bounds.northWest.latitude
                          \/ geoPoint.latitude < bounds.southEast.latitude
      isLonOutOfBounds == geoPoint.longitude < bounds.northWest.longitude
                          \/ geoPoint.longitude > bounds.southEast.longitude
      x == mapRange(geoPoint.longitude, bounds.northWest.longitude, bounds.southEast.longitude, 0, dims.height)
      y == mapRange(geoPoint.latitude, bounds.northWest.latitude, bounds.southEast.latitude, 0, dims.width)
  IN IF isLatOutOfBounds \/ isLonOutOfBounds THEN None
     ELSE Some(Pt(x, y))

mapGeoToPixel(geoPoint, bounds, dims) ==
  LET isLatOutOfBounds == geoPoint.latitude > bounds.northWest.latitude
                          \/ geoPoint.latitude < bounds.southEast.latitude
      isLonOutOfBounds == geoPoint.longitude < bounds.northWest.longitude
                          \/ geoPoint.longitude > bounds.southEast.longitude
      x == mapRange(geoPoint.longitude, bounds.northWest.longitude, bounds.southEast.longitude, 0, dims.width)
      y == mapRange(geoPoint.latitude, bounds.northWest.latitude, bounds.southEast.latitude, 0, dims.height)
  IN IF isLatOutOfBounds \/ isLonOutOfBounds THEN None
     ELSE Some(Pt(Max2(0, Min2(x, dims.width)), Max2(0, Min2(y, dims.height))))

\* Variant: x is mapped onto the latitudes and y onto the longitudes.
mapPixelToGeoSwappedAxes(pixelPoint, bounds, dims) ==
  Some([latitude |-> mapRange(pixelPoint.x, 0, dims.width, bounds.northWest.latitude, bounds.southEast.latitude),
        longitude |-> mapRange(pixelPoint.y, 0, dims.height, bounds.northWest.longitude, bounds.southEast.longitude)])

mapPixelToGeo(pixelPoint, bounds, dims) ==
  Some([latitude |-> mapRange(pixelPoint.y, 0, dims.height, bounds.northWest.latitude, bounds.southEast.latitude),
        longitude |-> mapRange(pixelPoint.x, 0, dims.width, bounds.northWest.longitude, bounds.southEast.longitude)])

\* ------------------------------------------------------------------- inputs
\* The geographic point that the default bounds map to pixel (x, y) of an
\* 800 x 600 image: 25 units of longitude and 15 units of latitude per pixel.
GeoAt(x, y) == [latitude |-> NW_LAT - 15 * y, longitude |-> NW_LON + 25 * x]

\* A point north of the calibrated bounds.
OutsideFix == [latitude |-> NW_LAT + 1000, longitude |-> NW_LON + 10000]

\* The positions the device reports during one run: one of these sets.
\* (695,505) is 7.07 px from the elevator at (700,500), (600,400) is 141 px
\* from it and (700,475) exactly 25 px.
FixSets == {{GeoAt(600, 400), GeoAt(695, 505), OutsideFix},
            {GeoAt(700, 475), OutsideFix}}

\* Where the user clicks on the map, before clamping.
RawClicks == {Pt(100, 100)}

\* Uploaded images: natural size and the elevators the analysis detects
\* (x_percent, y_percent already scaled to pixels, App.tsx 1127-1135).
Images == {"A"}
SmallImages == {"B"}
ImageDims(img) ==
  IF img \in SmallImages THEN [width |-> 400, height |-> 300]
  ELSE [width |-> 800, height |-> 600]
Detected(img) ==
  IF img \in SmallImages THEN <<Pt(395, 295), Pt(350, 250)>>
  ELSE <<Pt(790, 590), Pt(700, 500)>>

\* The elevator markers the user clicks, by index in the plan.
ClickableElevators == {2}

\* Backend answers to a path request.  json tells whether the text of the
\* answer parses (App.tsx 851); coords is path_coordinates, None when the field
\* is missing; instr is step_by_step_instructions, None when it is no array.
Responses ==
  {[json |-> TRUE, coords |-> Some(<<Pt(5, 5), Pt(300, 300), Pt(6, 6)>>), instr |-> Some(<<"i1", "i2">>)],
   [json |-> TRUE, coords |-> Some(<<Pt(5, 5), Pt(6, 6)>>), instr |-> Some(<<"i1">>)],
   [json |-> TRUE, coords |-> Some(<<Pt(5, 5)>>), instr |-> Some(<<"i1">>)],
   [json |-> TRUE, coords |-> Some(<<Pt(5, 5), Pt(6, 6)>>), instr |-> Some(<<>>)],
   [json |-> TRUE, coords |-> None, instr |-> Some(<<"i1">>)],
   [json |-> TRUE, coords |-> Some(<<Pt(5, 5), Pt(6, 6)>>), instr |-> None],
   [json |-> FALSE, coords |-> None, instr |-> None]}

\* What the awaited call can do: reject (None) or resolve with a response.
Outcomes == {None} \cup {Some(r) : r \in Responses}

\* -------------------------------------------------------------------- state
VARIABLES
  ai,                  \* module-level AI client is configured (App.tsx 676-686)
  geoSupported,        \* navigator.geolocation exists
  currentFloorPlan, userLocation, userGeoLocation, gpsStatus, isGpsDerived,
  isAnalyzingPlan, nearestElevator, selectedElevator, path, aiPathInstructions,
  isFetchingAiPath, isNavigatingWithGps, targetElevatorGps, gpsWatchId,
  watches,             \* watches registered with the browser: [id, cl]
  cleanupId,           \* watch id held by the registered effect cleanup, 0 if none
  lookups,             \* one-shot lookups in flight: [kind, cl], cl the closure
                       \* of the callbacks
  requests,            \* path requests awaiting the backend
  upload,              \* file being read and analysed: <<>> or <<[img, gen]>>
  dialogOpen,          \* the file chooser is open
  gen,                 \* number of uploads so far (Date.now() of the plan ids)
  deviceFixes,         \* the positions the device reports in this run
  ev                   \* the last callback or user action that ran, its
                       \* argument and the number of path requests it sent

reactVars == <<currentFloorPlan, userLocation, userGeoLocation, gpsStatus, isGpsDerived,
               isAnalyzingPlan, nearestElevator, selectedElevator, path, aiPathInstructions,
               isFetchingAiPath, isNavigatingWithGps, targetElevatorGps, gpsWatchId>>

env == <<ai, geoSupported, deviceFixes>>

vars == <<env, reactVars, watches, cleanupId, lookups, requests,
          upload, dialogOpen, gen, ev>>

\* The React state as one record.
State ==
  [currentFloorPlan |-> currentFloorPlan, userLocation |-> userLocation,
   userGeoLocation |-> userGeoLocation, gpsStatus |-> gpsStatus,
   isGpsDerived |-> isGpsDerived, isAnalyzingPlan |-> isAnalyzingPlan,
   nearestElevator |-> nearestElevator, selectedElevator |-> selectedElevator,
   path |-> path, aiPathInstructions |-> aiPathInstructions,
   isFetchingAiPath |-> isFetchingAiPath, isNavigatingWithGps |-> isNavigatingWithGps,
   targetElevatorGps |-> targetElevatorGps, gpsWatchId |-> gpsWatchId]

\* The component together with the browser objects its callbacks touch.
\*   dirty: state variables that received a fresh object since the last render
\*   issued: path requests sent to the backend in this step
\*   overflow: the step needed more requests than MaxRequests
World ==
  [st |-> State, ai |-> ai, geoSupported |-> geoSupported, watches |-> watches,
   cleanupId |-> cleanupId, lookups |-> lookups, requests |-> requests,
   dirty |-> {}, issued |-> 0, overflow |-> FALSE]

\* What a callback created by a render reads of that render's state.
Closure(st) ==
  [currentFloorPlan |-> st.currentFloorPlan, userLocation |-> st.userLocation,
   isNavigatingWithGps |-> st.isNavigatingWithGps, selectedElevator |-> st.selectedElevator,
   aiPathInstructions |-> st.aiPathInstructions, isFetchingAiPath |-> st.isFetchingAiPath,
   path |-> st.path, gpsWatchId |-> st.gpsWatchId, isAnalyzingPlan |-> st.isAnalyzingPlan]

Fresh(w, names) == [w EXCEPT !.dirty = @ \cup names]

\* ----------------------------------------------------------------- handlers
\* stopGpsNavigation (App.tsx 716-731).  c is the closure of the callback,
\* msg the optional message.
stopGpsNavigation(c, w, msg) ==
  LET w1 == [w EXCEPT !.st.isNavigatingWithGps = FALSE]
      w2 == IF c.gpsWatchId # 0
            THEN [w1 EXCEPT !.watches = {x \in @ : x.id # c.gpsWatchId},
                            !.st.gpsWatchId = 0]
            ELSE w1
      status == IF msg # None THEN msg[1]
                ELSE IF c.selectedElevator # None THEN "cancelled"
                ELSE IF c.currentFloorPlan # None THEN "stopped"
                ELSE "initial"
  IN [w2 EXCEPT !.st.gpsStatus = status]

\* Variant: the reset clears the selections but does not stop navigation.
resetWithoutStop(c, w, msg) ==
  [w EXCEPT !.st.userLocation = None, !.st.userGeoLocation = None,
            !.st.nearestElevator = None, !.st.selectedElevator = None,
            !.st.path = None, !.st.aiPathInstructions = None,
            !.st.isFetchingAiPath = FALSE, !.st.isGpsDerived = FALSE,
            !.st.targetElevatorGps = None,
            !.st.gpsStatus = IF msg # None THEN msg[1]
                             ELSE IF c.currentFloorPlan # None THEN "cleared" ELSE "initial"]

\* Variant: the reset leaves the selected elevator in place.
resetKeepingSelection(c, w, msg) ==
  LET w1 == [w EXCEPT !.st.userLocation = None, !.st.userGeoLocation = None,
                      !.st.nearestElevator = None,
                      !.st.path = None, !.st.aiPathInstructions = None,
                      !.st.isFetchingAiPath = FALSE, !.st.isGpsDerived = FALSE]
      w2 == stopGpsNavigation(c, w1, None)
      status == IF msg # None THEN msg[1]
                ELSE IF c.currentFloorPlan # None THEN "cleared"
                ELSE "initial"
  IN [w2 EXCEPT !.st.targetElevatorGps = None, !.st.gpsStatus = status]

\* resetAllLocationsAndSelections (App.tsx 733-752).
resetAllLocationsAndSelections(c, w, msg) ==
  LET w1 == [w EXCEPT !.st.userLocation = None, !.st.userGeoLocation = None,
                      !.st.nearestElevator = None, !.st.selectedElevator = None,
                      !.st.path = None, !.st.aiPathInstructions = None,
                      !.st.isFetchingAiPath = FALSE, !.st.isGpsDerived = FALSE]
      w2 == stopGpsNavigation(c, w1, None)
      status == IF msg # None THEN msg[1]
                ELSE IF c.currentFloorPlan # None THEN "cleared"
                ELSE "initial"
  IN [w2 EXCEPT !.st.targetElevatorGps = None, !.st.gpsStatus = status]

\* Variant: the pending flag is set before the test for the client and the
\* image, so the early return leaves it set.
fetchUnavailableLeavingPending(w, start, target) ==
  [w EXCEPT !.st.isFetchingAiPath = TRUE,
            !.st.gpsStatus = "aiUnavailable",
            !.st.path = Some(calculatePath(start, target.location)),
            !.st.aiPathInstructions = Some(<<"AI pathfinding is currently unavailable.">>)]

\* The early return of fetchAiPathAndInstructions when the client or the
\* image of the plan is missing (App.tsx 760-765).
fetchUnavailable(w, start, target) ==
  [w EXCEPT !.st.gpsStatus = "aiUnavailable",
            !.st.path = Some(calculatePath(start, target.location)),
            !.st.aiPathInstructions = Some(<<"AI pathfinding is currently unavailable.">>)]

\* fetchAiPathAndInstructions up to its await (App.tsx 755-844): the
\* short-circuit without a client or image, otherwise the request is sent.
fetchAiPathAndInstructions(w, start, target, plan) ==
  IF ~w.ai \/ ~plan.hasImage
  THEN Fresh(fetchUnavailable(w, start, target), {"path", "aiPathInstructions"})
  ELSE [w EXCEPT !.st.isFetchingAiPath = TRUE,
                 !.st.aiPathInstructions = None,
                 !.st.path = None,
                 !.st.gpsStatus = "planning",
                 !.requests = Append(@, [start |-> start, target |-> target, plan |-> plan.id]),
                 !.issued = @ + 1,
                 !.overflow = @ \/ Len(w.requests) >= MaxRequests]

ErrorInstructions ==
  <<"AI pathfinding system encountered an error.",
    "A straight line to the elevator is shown on the map.",
    "Please use visual cues on the floor plan to navigate.">>

GenericInstructions ==
  <<"AI was unable to determine a detailed path.",
    "A straight line to the elevator is shown on the map.">>

\* The call rejected, the text did not parse or the structure test of
\* App.tsx 853 failed: control reaches the catch block.
Throws(outcome) ==
  \/ outcome = None
  \/ ~outcome[1].json
  \/ outcome[1].coords = None
  \/ outcome[1].instr = None

\* Variant: the catch block reports the failure but keeps the path as it is.
fetchCatchKeepingPath(w, r) ==
  [w EXCEPT !.st.gpsStatus = "pathFailed",
            !.st.aiPathInstructions = Some(ErrorInstructions)]

\* The catch block (App.tsx 873-881).
fetchCatch(w, r) ==
  [w EXCEPT !.st.gpsStatus = "pathFailed",
            !.st.path = Some(calculatePath(r.start, r.target.location)),
            !.st.aiPathInstructions = Some(ErrorInstructions)]

\* Variant: only the first point of the returned path is overwritten.
fetchValidatedFirstOnly(w, r, resp) ==
  [w EXCEPT !.st.path = Some([resp.coords[1] EXCEPT ![1] = r.start]),
            !.st.aiPathInstructions = resp.instr,
            !.st.gpsStatus = "pathGenerated"]

\* A response with at least two coordinates and one instruction
\* (App.tsx 855-861).
fetchValidated(w, r, resp) ==
  LET n == Len(resp.coords[1])
      validatedPath == [[resp.coords[1] EXCEPT ![1] = r.start]
                          EXCEPT ![n] = r.target.location]
  IN [w EXCEPT !.st.path = Some(validatedPath),
               !.st.aiPathInstructions = resp.instr,
               !.st.gpsStatus = "pathGenerated"]

\* Variant: a partial response always gets the generic instructions.
fetchPartialAlwaysGeneric(w, r, resp) ==
  [w EXCEPT !.st.gpsStatus = "partial",
            !.st.path = Some(calculatePath(r.start, r.target.location)),
            !.st.aiPathInstructions = Some(GenericInstructions)]

\* A response with fewer than two coordinates or no instruction
\* (App.tsx 862-869).
fetchPartial(w, r, resp) ==
  [w EXCEPT !.st.gpsStatus = "partial",
            !.st.path = Some(calculatePath(r.start, r.target.location)),
            !.st.aiPathInstructions =
               IF Len(resp.instr[1]) > 0 THEN resp.instr
               ELSE Some(GenericInstructions)]

\* The try and catch blocks of fetchAiPathAndInstructions after the await
\* (App.tsx 846-881).  r is the request (the arguments the call captured).
fetchTryCatch(w, r, outcome) ==
  Fresh(IF Throws(outcome) THEN fetchCatch(w, r)
        ELSE LET resp == outcome[1]
             IN IF Len(resp.coords[1]) >= 2 /\ Len(resp.instr[1]) > 0
                THEN fetchValidated(w, r, resp)
                ELSE fetchPartial(w, r, resp),
        {"path", "aiPathInstructions"})

\* Variant: the flag is cleared at the end of the try block instead of in a
\* finally block, so a call that throws leaves it set.
fetchCompletionWithoutFinally(w, r, outcome) ==
  IF outcome = None THEN fetchTryCatch(w, r, outcome)
  ELSE [fetchTryCatch(w, r, outcome) EXCEPT !.st.isFetchingAiPath = FALSE]

\* The rest of fetchAiPathAndInstructions after the await, with its finally
\* block (App.tsx 846-884).
fetchCompletion(w, r, outcome) ==
  [fetchTryCatch(w, r, outcome) EXCEPT !.st.isFetchingAiPath = FALSE]

\* Variant: a fix outside the mapped area also drops the path.
outsideMappedAreaClearingPath(c, w) ==
  [w EXCEPT !.st.isGpsDerived = FALSE,
            !.st.path = None,
            !.st.gpsStatus = IF c.isNavigatingWithGps /\ c.selectedElevator # None
                             THEN "navOutside" ELSE "outside"]

\* The branch of processGpsLocation for a fix that does not project into the
\* plan (App.tsx 933-940).
outsideMappedArea(c, w) ==
  [w EXCEPT !.st.isGpsDerived = FALSE,
            !.st.gpsStatus = IF c.isNavigatingWithGps /\ c.selectedElevator # None
                             THEN "navOutside" ELSE "outside"]

\* Variant of the arrival test: a distance equal to the threshold arrives too.
arrivedAtTargetInclusive(pixelLocation, target) ==
  Dist2(pixelLocation, target) <= ARRIVAL_THRESHOLD_PIXELS * ARRIVAL_THRESHOLD_PIXELS

\* The arrival test of processGpsLocation (App.tsx 904-905):
\* calculateDistance(pixelLocation, target) < ARRIVAL_THRESHOLD_PIXELS.
arrivedAtTarget(pixelLocation, target) ==
  Dist2(pixelLocation, target) < ARRIVAL_THRESHOLD_PIXELS * ARRIVAL_THRESHOLD_PIXELS

\* Variant: the raw fix is not recorded.
storeGeoLocationSkipped(w, geoPoint) == w

\* processGpsLocation records the raw fix before projecting it (App.tsx 894).
storeGeoLocation(w, geoPoint) ==
  [w EXCEPT !.st.userGeoLocation = Some(geoPoint)]

\* Variant: a displacement of exactly twice the marker size counts as well.
movedSinceLastFixInclusive(pix, oldUserLocation) ==
  \/ oldUserLocation = None
  \/ Dist2(pix, oldUserLocation[1]) >= (MARKER_SIZE * 2) * (MARKER_SIZE * 2)

\* !oldUserLocation || calculateDistance(pixelLocation, oldUserLocation) >
\* MARKER_SIZE * 2 (App.tsx 917), on the squares of the distances.
movedSinceLastFix(pix, oldUserLocation) ==
  \/ oldUserLocation = None
  \/ Dist2(pix, oldUserLocation[1]) > (MARKER_SIZE * 2) * (MARKER_SIZE * 2)

\* processGpsLocation (App.tsx 888-941).  ctx is the optional context message.
processGpsLocation(c, w, geoPoint, ctx) ==
  IF c.currentFloorPlan = None \/ c.currentFloorPlan[1].dimensions.width = 0
  THEN [w EXCEPT !.st.gpsStatus = "notLoaded"]
  ELSE
    LET plan == c.currentFloorPlan[1]
        w0 == storeGeoLocation(w, geoPoint)
        pixelLocation == mapGeoToPixel(geoPoint, FLOOR_PLAN_GEO_BOUNDS, plan.dimensions)
    IN IF pixelLocation # None
       THEN
         LET pix == pixelLocation[1]
             oldUserLocation == c.userLocation
             w1 == Fresh([w0 EXCEPT !.st.userLocation = pixelLocation,
                                    !.st.isGpsDerived = TRUE], {"userLocation"})
             status0 == IF ctx # None THEN ctx[1] ELSE "gpsUpdated"
         IN IF c.isNavigatingWithGps /\ c.selectedElevator # None
            THEN
              LET sel == c.selectedElevator[1]
              IN IF arrivedAtTarget(pix, sel.location)
                 THEN [stopGpsNavigation(c, w1, Some("arrived"))
                         EXCEPT !.st.path = None, !.st.gpsStatus = "arrived"]
                 ELSE
                   LET w2 ==
                         IF c.aiPathInstructions # None /\ c.path # None /\ Len(c.path[1]) > 0
                         THEN Fresh([w1 EXCEPT !.st.path = Some([c.path[1] EXCEPT ![1] = pix])], {"path"})
                         ELSE IF c.aiPathInstructions = None /\ ~c.isFetchingAiPath
                                 /\ movedSinceLastFix(pix, oldUserLocation)
                         THEN fetchAiPathAndInstructions(w1, pix, sel, plan)
                         ELSE IF ~c.isFetchingAiPath
                         THEN Fresh([w1 EXCEPT !.st.path = Some(calculatePath(pix, sel.location))], {"path"})
                         ELSE w1
                   IN [w2 EXCEPT !.st.gpsStatus = "navigating"]
            ELSE IF c.selectedElevator # None /\ ~c.isNavigatingWithGps /\ ~c.isFetchingAiPath
            THEN [fetchAiPathAndInstructions(w1, pix, c.selectedElevator[1], plan)
                    EXCEPT !.st.gpsStatus = status0]
            ELSE IF c.selectedElevator = None /\ ~c.isFetchingAiPath
            THEN
              LET nearest == findNearestElevator(pix, plan.elevators)
                  w2 == [w1 EXCEPT !.st.nearestElevator = nearest]
                  w3 == IF nearest # None
                        THEN Fresh([w2 EXCEPT !.st.path = Some(calculatePath(pix, nearest[1].location))], {"path"})
                        ELSE w2
              IN [w3 EXCEPT !.st.gpsStatus = status0]
            ELSE [w1 EXCEPT !.st.gpsStatus = status0]
       ELSE outsideMappedArea(c, w0)

\* FloorPlanDisplay.handleMapClick (constants.ts 45-54): the click is clamped
\* to the dimensions of the displayed plan.
handleMapClick(raw, dims) ==
  Pt(Max2(0, Min2(raw.x, dims.width)), Max2(0, Min2(raw.y, dims.height)))

\* Variant: a click is taken while a path request is pending.
clickRejectedUnlessPending(c) == c.isAnalyzingPlan \/ c.currentFloorPlan = None

\* The early return shared by the two click handlers (App.tsx 998, 1020).
clickRejected(c) == c.isAnalyzingPlan \/ c.currentFloorPlan = None \/ c.isFetchingAiPath

\* handleManualMapClick (App.tsx 997-1017).
handleManualMapClick(c, w, point) ==
  IF clickRejected(c) THEN w
  ELSE
    LET plan == c.currentFloorPlan[1]
        w1 == stopGpsNavigation(c, w, Some("manualSet"))
        w2 == Fresh([w1 EXCEPT !.st.userLocation = Some(point),
                               !.st.isGpsDerived = FALSE,
                               !.st.aiPathInstructions = None], {"userLocation"})
        nearest == findNearestElevator(point, plan.elevators)
    IN IF nearest # None
       THEN [fetchAiPathAndInstructions([w2 EXCEPT !.st.selectedElevator = nearest],
                                        point, nearest[1], plan)
               EXCEPT !.st.targetElevatorGps =
                         mapPixelToGeo(nearest[1].location, FLOOR_PLAN_GEO_BOUNDS, plan.dimensions),
                      !.st.isNavigatingWithGps = TRUE]
       ELSE [w2 EXCEPT !.st.selectedElevator = None, !.st.path = None,
                       !.st.targetElevatorGps = None, !.st.gpsStatus = "noElevators"]

\* handleElevatorClick (App.tsx 1019-1044): index is the position of the
\* clicked marker in the plan's elevator list.
handleElevatorClick(c, w, index) ==
  IF clickRejected(c) THEN w
  ELSE IF Len(c.currentFloorPlan[1].elevators) = 0 \/ index \notin 1..Len(c.currentFloorPlan[1].elevators) THEN w
  ELSE
    LET plan == c.currentFloorPlan[1]
        elevator == plan.elevators[index]
        w1 == stopGpsNavigation(c, w, None)
        w2 == [w1 EXCEPT !.st.selectedElevator = Some(elevator),
                         !.st.aiPathInstructions = None,
                         !.st.targetElevatorGps =
                            mapPixelToGeo(elevator.location, FLOOR_PLAN_GEO_BOUNDS, plan.dimensions)]
    IN IF c.userLocation # None
       THEN [fetchAiPathAndInstructions(w2, c.userLocation[1], elevator, plan)
               EXCEPT !.st.isNavigatingWithGps = TRUE]
       ELSE [w2 EXCEPT !.st.path = None, !.st.gpsStatus = "targeting"]

\* ------------------------------------------------------------------ effects
\* Status texts that contain "Targeting", "Navigating to" or "AI is planning"
\* (the test of the functional update at App.tsx 968).
KeepsStatus(tag) == tag \in {"targeting", "navigating", "navOutside", "planning"}

FreeWatchId(w) == CHOOSE i \in 1..(Cardinality(w.watches) + 1) :
                    /\ \A x \in w.watches : x.id # i
                    /\ \A j \in 1..(i - 1) : \E x \in w.watches : x.id = j

\* Effect of App.tsx 943-960: the one-shot lookup.  The effect runs again,
\* and sends another lookup, whenever the plan or processGpsLocation changes.
\* The model follows two of the lookups in flight: the one sent when the plan
\* last changed and the one sent last since then.  The other lookups stay
\* outstanding beyond the horizon of the model.
lookupEffect(c, w, planChanged) ==
  IF c.currentFloorPlan = None \/ ~w.geoSupported
  THEN [w EXCEPT !.st.gpsStatus = IF c.currentFloorPlan = None THEN "initial" ELSE "gpsUnsupported"]
  ELSE [w EXCEPT !.st.gpsStatus = "attempting",
                 !.lookups = IF planChanged
                             THEN {[kind |-> "plan", cl |-> c]}
                             ELSE {l \in @ : l.kind = "plan"} \cup {[kind |-> "callback", cl |-> c]}]

\* Variant: the cleanup clears its watch only when another one is registered.
watchCleanupSparingLastWatch(w) ==
  IF w.cleanupId = 0 THEN w
  ELSE [w EXCEPT !.watches = IF Cardinality(@) > 1 THEN {x \in @ : x.id # w.cleanupId} ELSE @,
                 !.st.gpsWatchId = 0,
                 !.cleanupId = 0]

\* Cleanup returned by the effect of App.tsx 962-994 (lines 984-987).
watchCleanup(w) ==
  IF w.cleanupId = 0 THEN w
  ELSE [w EXCEPT !.watches = {x \in @ : x.id # w.cleanupId},
                 !.st.gpsWatchId = 0,
                 !.cleanupId = 0]

\* Variant: the effect does not test for geolocation support and registers
\* nothing when it is missing.
watchEffectWithoutSupportTest(c, w) ==
  IF c.isNavigatingWithGps /\ c.selectedElevator # None /\ c.currentFloorPlan # None
  THEN IF ~w.geoSupported
       THEN w
       ELSE LET watchId == FreeWatchId(w)
            IN [w EXCEPT !.st.gpsStatus = IF KeepsStatus(@) THEN @ ELSE "starting",
                         !.watches = @ \cup {[id |-> watchId, cl |-> c]},
                         !.st.gpsWatchId = watchId,
                         !.cleanupId = watchId]
  ELSE IF c.gpsWatchId # 0
       THEN [w EXCEPT !.watches = {x \in @ : x.id # c.gpsWatchId}, !.st.gpsWatchId = 0]
       ELSE w

\* Body of the effect of App.tsx 962-994: the location watch.
watchEffect(c, w) ==
  IF c.isNavigatingWithGps /\ c.selectedElevator # None /\ c.currentFloorPlan # None
  THEN IF ~w.geoSupported
       THEN stopGpsNavigation(c, w, Some("navUnsupported"))
       ELSE LET watchId == FreeWatchId(w)
            IN [w EXCEPT !.st.gpsStatus = IF KeepsStatus(@) THEN @ ELSE "starting",
                         !.watches = @ \cup {[id |-> watchId, cl |-> c]},
                         !.st.gpsWatchId = watchId,
                         !.cleanupId = watchId]
  ELSE IF c.gpsWatchId # 0
       THEN [w EXCEPT !.watches = {x \in @ : x.id # c.gpsWatchId}, !.st.gpsWatchId = 0]
       ELSE w

\* Variant: with a selected elevator the nearest elevator is left as it is.
derivedEffectKeepingNearest(c, w) ==
  IF c.userLocation # None /\ c.currentFloorPlan # None
  THEN IF c.selectedElevator = None
       THEN LET foundNearest == findNearestElevator(c.userLocation[1], c.currentFloorPlan[1].elevators)
                w1 == [w EXCEPT !.st.nearestElevator = foundNearest]
            IN IF foundNearest # None /\ ~c.isFetchingAiPath /\ c.aiPathInstructions = None
               THEN Fresh([w1 EXCEPT !.st.path = Some(calculatePath(c.userLocation[1], foundNearest[1].location))],
                          {"path"})
               ELSE IF foundNearest = None /\ ~c.isFetchingAiPath
               THEN [w1 EXCEPT !.st.path = None]
               ELSE w1
       ELSE IF ~c.isFetchingAiPath /\ c.aiPathInstructions = None
            THEN Fresh([w EXCEPT !.st.path = Some(calculatePath(c.userLocation[1], c.selectedElevator[1].location))],
                       {"path"})
            ELSE w
  ELSE LET w1 == [w EXCEPT !.st.nearestElevator = None]
       IN IF ~c.isFetchingAiPath THEN [w1 EXCEPT !.st.path = None] ELSE w1

\* Effect of App.tsx 1047-1068: nearest elevator and fallback path.
derivedEffect(c, w) ==
  IF c.userLocation # None /\ c.currentFloorPlan # None
  THEN IF c.selectedElevator = None
       THEN LET foundNearest == findNearestElevator(c.userLocation[1], c.currentFloorPlan[1].elevators)
                w1 == [w EXCEPT !.st.nearestElevator = foundNearest]
            IN IF foundNearest # None /\ ~c.isFetchingAiPath /\ c.aiPathInstructions = None
               THEN Fresh([w1 EXCEPT !.st.path = Some(calculatePath(c.userLocation[1], foundNearest[1].location))],
                          {"path"})
               ELSE IF foundNearest = None /\ ~c.isFetchingAiPath
               THEN [w1 EXCEPT !.st.path = None]
               ELSE w1
       ELSE LET w1 == [w EXCEPT !.st.nearestElevator = None]
            IN IF ~c.isFetchingAiPath /\ c.aiPathInstructions = None
               THEN Fresh([w1 EXCEPT !.st.path = Some(calculatePath(c.userLocation[1], c.selectedElevator[1].location))],
                          {"path"})
               ELSE w1
  ELSE LET w1 == [w EXCEPT !.st.nearestElevator = None]
       IN IF ~c.isFetchingAiPath THEN [w1 EXCEPT !.st.path = None] ELSE w1

\* Dependency lists of the callbacks and effects.
StopDeps == {"gpsWatchId", "selectedElevator", "currentFloorPlan"}                       \* 731
ProcessDeps == {"currentFloorPlan", "isNavigatingWithGps", "selectedElevator",
                "aiPathInstructions", "isFetchingAiPath", "path", "userLocation"}
               \cup StopDeps                                                             \* 941
LookupDeps == ProcessDeps \cup {"currentFloorPlan"}                                      \* 960
\* Variant: the watch effect names selectedElevator alone.
WatchDepsSelectionOnly == {"selectedElevator"}
\* Dependency list of the watch effect.
WatchDeps == {"isNavigatingWithGps", "selectedElevator", "currentFloorPlan"}
             \cup ProcessDeps \cup StopDeps                                              \* 994
DerivedDeps == {"userLocation", "currentFloorPlan", "selectedElevator",
                "isFetchingAiPath", "aiPathInstructions"}                                \* 1068
StateFields == {"currentFloorPlan", "userLocation", "userGeoLocation", "gpsStatus",
                "isGpsDerived", "isAnalyzingPlan", "nearestElevator", "selectedElevator",
                "path", "aiPathInstructions", "isFetchingAiPath", "isNavigatingWithGps",
                "targetElevatorGps", "gpsWatchId"}

\* A dependency changed since the render that produced prev: a different
\* value, or a fresh object (never identical to the previous one).
Changed(prev, w, fields) == \E f \in fields : prev[f] # w.st[f] \/ f \in w.dirty

\* One render and its passive effects: cleanups first, then the effect bodies
\* in declaration order, all reading the rendered state.
renderOnce(prev, w) ==
  LET c == Closure(w.st)
      w0 == [w EXCEPT !.dirty = {}]
      w1 == IF Changed(prev, w, WatchDeps) THEN watchCleanup(w0) ELSE w0
      w2 == IF Changed(prev, w, LookupDeps)
            THEN lookupEffect(c, w1, Changed(prev, w, {"currentFloorPlan"}))
            ELSE w1
      w3 == IF Changed(prev, w, WatchDeps) THEN watchEffect(c, w2) ELSE w2
      w4 == IF Changed(prev, w, DerivedDeps) THEN derivedEffect(c, w3) ELSE w3
  IN w4

\* Re-render until the state is stable.  (The bound variable rendered holds
\* the world after one render as a value, so it is computed once.)
RECURSIVE settle(_, _)
settle(prev, w) ==
  IF ~Changed(prev, w, StateFields) THEN w
  ELSE CHOOSE r \in {settle(w.st, rendered) : rendered \in {renderOnce(prev, w)}} : TRUE

\* The variables after the step op, called with arg, whose writes are in w.
Install(op, arg, w) ==
  /\ ~w.overflow
  /\ ev' = [op |-> op, arg |-> arg, issued |-> w.issued]
  /\ currentFloorPlan' = w.st.currentFloorPlan
  /\ userLocation' = w.st.userLocation
  /\ userGeoLocation' = w.st.userGeoLocation
  /\ gpsStatus' = w.st.gpsStatus
  /\ isGpsDerived' = w.st.isGpsDerived
  /\ isAnalyzingPlan' = w.st.isAnalyzingPlan
  /\ nearestElevator' = w.st.nearestElevator
  /\ selectedElevator' = w.st.selectedElevator
  /\ path' = w.st.path
  /\ aiPathInstructions' = w.st.aiPathInstructions
  /\ isFetchingAiPath' = w.st.isFetchingAiPath
  /\ isNavigatingWithGps' = w.st.isNavigatingWithGps
  /\ targetElevatorGps' = w.st.targetElevatorGps
  /\ gpsWatchId' = w.st.gpsWatchId
  /\ watches' = w.watches
  /\ cleanupId' = w.cleanupId
  /\ lookups' = w.lookups
  /\ requests' = w.requests
  /\ UNCHANGED env

\* ------------------------------------------------------------ initial state

\* The successor state of the step op whose callback, called with arg, turned
\* World into w0.
Commit(op, arg, w0) ==
  \E w \in {settle(State, after) : after \in {w0}} : Install(op, arg, w)

NoEvent == [op |-> "mount", arg |-> None, issued |-> 0]

\* The component after its first render, whatever the environment.
Mounted ==
  /\ ai \in BOOLEAN
  /\ geoSupported \in BOOLEAN
  /\ currentFloorPlan = None
  /\ userLocation = None
  /\ userGeoLocation = None
  /\ gpsStatus = "initial"
  /\ isGpsDerived = FALSE
  /\ isAnalyzingPlan = FALSE
  /\ nearestElevator = None
  /\ selectedElevator = None
  /\ path = None
  /\ aiPathInstructions = None
  /\ isFetchingAiPath = FALSE
  /\ isNavigatingWithGps = FALSE
  /\ targetElevatorGps = None
  /\ gpsWatchId = 0
  /\ watches = {}
  /\ cleanupId = 0
  /\ lookups = {}
  /\ requests = <<>>
  /\ upload = None
  /\ dialogOpen = FALSE
  /\ gen = 0
  /\ ev = NoEvent

Init == deviceFixes \in FixSets /\ Mounted

\* ------------------------------------------------------------------ actions
RemoveAt(seq, i) == [j \in 1..(Len(seq) - 1) |-> IF j < i THEN seq[j] ELSE seq[j + 1]]

\* The map and its elevator markers are rendered only for a plan with an
\* image (App.tsx 1298-1307).  The file chooser is modal: while it is open the
\* page takes no clicks.
DisplayShown == currentFloorPlan # None /\ currentFloorPlan[1].hasImage /\ ~dialogOpen

\* triggerFileUpload (App.tsx 1200) behind its buttons (1221, 1321): the file
\* chooser opens.
TriggerFileUpload ==
  /\ ai /\ ~isAnalyzingPlan /\ ~isFetchingAiPath /\ ~dialogOpen
  /\ dialogOpen' = TRUE
  /\ ev' = [op |-> "triggerFileUpload", arg |-> None, issued |-> 0]
  /\ UNCHANGED <<env, reactVars, watches, cleanupId, lookups, requests, upload, gen>>

\* The user dismisses the file chooser: no change event, no callback runs.
DismissFileChooser ==
  /\ dialogOpen
  /\ dialogOpen' = FALSE
  /\ ev' = [op |-> "dismissFileChooser", arg |-> None, issued |-> 0]
  /\ UNCHANGED <<env, reactVars, watches, cleanupId, lookups, requests, upload, gen>>

\* handleFloorPlanUpload (App.tsx 1160-1198), synchronous part: file is <<>>
\* when the change event carries no file, else <<image>>.
handleFloorPlanUpload(c, w, file) ==
  IF c.isAnalyzingPlan \/ file = None THEN w
  ELSE LET w1 == resetAllLocationsAndSelections(c, [w EXCEPT !.st.isAnalyzingPlan = TRUE], Some("uploading"))
           dims == IF c.currentFloorPlan # None
                   THEN [width |-> IF c.currentFloorPlan[1].dimensions.width # 0
                                   THEN c.currentFloorPlan[1].dimensions.width ELSE DEFAULT_WIDTH,
                         height |-> IF c.currentFloorPlan[1].dimensions.height # 0
                                    THEN c.currentFloorPlan[1].dimensions.height ELSE DEFAULT_HEIGHT]
                   ELSE [width |-> DEFAULT_WIDTH, height |-> DEFAULT_HEIGHT]
       IN [w1 EXCEPT !.st.currentFloorPlan =
                        Some([id |-> gen + 1, loading |-> TRUE, hasImage |-> FALSE,
                              dimensions |-> dims, elevators |-> <<>>]),
                     !.st.gpsStatus = "analyzing"]

HandleFloorPlanUpload(file) ==
  /\ dialogOpen
  /\ file # None => gen < MaxUploads
  /\ LET w == handleFloorPlanUpload(Closure(State), World, file)
         started == file # None /\ ~isAnalyzingPlan
     IN /\ Commit("handleFloorPlanUpload", file, w)
        /\ upload' = IF started THEN Some([img |-> file[1], gen |-> gen + 1]) ELSE upload
        /\ gen' = IF started THEN gen + 1 ELSE gen
  /\ dialogOpen' = FALSE

\* Completion of the file read, image load and analyzeFloorPlanWithGemini
\* (App.tsx 1088-1157, 1176-1195).  With the client missing no upload can be
\* started, so lines 1078-1086 are not reachable.
AnalysisOutcomes == {"detected", "none", "threw", "imageError", "readError"}

analysisDone(w, u, outcome) ==
  LET dims == ImageDims(u.img)
      found == Detected(u.img)
      newElevators == [i \in 1..Len(found) |-> [id |-> <<u.gen, i>>, location |-> found[i]]]
      planWith(elevs) == Some([id |-> u.gen, loading |-> FALSE, hasImage |-> TRUE,
                               dimensions |-> dims, elevators |-> elevs])
  IN CASE outcome = "detected" ->
            [w EXCEPT !.st.currentFloorPlan = planWith(newElevators),
                      !.st.gpsStatus = "analysisFound",
                      !.st.isAnalyzingPlan = FALSE]
       [] outcome = "none" ->
            [w EXCEPT !.st.currentFloorPlan = planWith(<<>>),
                      !.st.gpsStatus = "analysisNone",
                      !.st.isAnalyzingPlan = FALSE]
       [] outcome = "threw" ->
            [w EXCEPT !.st.currentFloorPlan = planWith(<<>>),
                      !.st.gpsStatus = "analysisError",
                      !.st.isAnalyzingPlan = FALSE]
       [] OTHER ->
            [w EXCEPT !.st.gpsStatus = outcome,
                      !.st.isAnalyzingPlan = FALSE,
                      !.st.currentFloorPlan = None]

AnalysisDone(outcome) ==
  /\ upload # None
  /\ LET w == analysisDone(World, upload[1], outcome)
     IN Commit("analysisDone", Some(outcome), w)
  /\ upload' = None
  /\ UNCHANGED <<dialogOpen, gen>>

ManualMapClick(raw) ==
  /\ DisplayShown
  /\ LET point == handleMapClick(raw, currentFloorPlan[1].dimensions)
         w == handleManualMapClick(Closure(State), World, point)
     IN Commit("handleManualMapClick", Some(point), w)
  /\ UNCHANGED <<upload, dialogOpen, gen>>

ElevatorClick(index) ==
  /\ DisplayShown
  /\ index \in 1..Len(currentFloorPlan[1].elevators)
  /\ LET w == handleElevatorClick(Closure(State), World, index)
     IN Commit("handleElevatorClick", Some(index), w)
  /\ UNCHANGED <<upload, dialogOpen, gen>>

\* The Cancel GPS Navigation button (App.tsx 1239-1245).
CancelNavigation ==
  /\ isNavigatingWithGps /\ currentFloorPlan # None /\ ~isFetchingAiPath /\ ~dialogOpen
  /\ LET w == stopGpsNavigation(Closure(State), World, None)
     IN Commit("cancel", None, w)
  /\ UNCHANGED <<upload, dialogOpen, gen>>

\* Success callback of a registered watch (App.tsx 971-976).
WatchFix(x, geoPoint) ==
  /\ x \in watches
  /\ LET w == processGpsLocation(x.cl, World, geoPoint, None)
     IN Commit("watchFix", Some(geoPoint), w)
  /\ UNCHANGED <<upload, dialogOpen, gen>>

\* Error callback of a registered watch (App.tsx 977-979).
WatchError(x) ==
  /\ x \in watches
  /\ LET w == stopGpsNavigation(x.cl, World, Some("navError"))
     IN Commit("watchError", None, w)
  /\ UNCHANGED <<upload, dialogOpen, gen>>

\* Success callback of a one-shot lookup (App.tsx 951-954).
LookupFix(l, geoPoint) ==
  /\ l \in lookups
  /\ LET w == processGpsLocation(l.cl, [World EXCEPT !.lookups = @ \ {l}], geoPoint, Some("initialAcquired"))
     IN Commit("lookupFix", Some(geoPoint), w)
  /\ UNCHANGED <<upload, dialogOpen, gen>>

\* Error callback of a one-shot lookup (App.tsx 955-957).
LookupError(l) ==
  /\ l \in lookups
  /\ LET w == [World EXCEPT !.lookups = @ \ {l}, !.st.gpsStatus = "initialFailed"]
     IN Commit("lookupError", None, w)
  /\ UNCHANGED <<upload, dialogOpen, gen>>

\* The backend answers (or fails) request i (App.tsx 840-884).
PathRequestCompletes(i, outcome) ==
  /\ i \in 1..Len(requests)
  /\ requests' = RemoveAt(requests, i)
  /\ LET w == fetchCompletion([World EXCEPT !.requests = RemoveAt(@, i)], requests[i], outcome)
     IN Commit("fetchCompletion", [request |-> requests[i], outcome |-> outcome], w)
  /\ UNCHANGED <<upload, dialogOpen, gen>>

BackendAnswers ==
  \E i \in 1..MaxRequests, outcome \in Outcomes :
     PathRequestCompletes(i, outcome)

Next ==
  \/ TriggerFileUpload
  \/ DismissFileChooser
  \/ \E img \in Images : HandleFloorPlanUpload(Some(img))
  \/ \E outcome \in AnalysisOutcomes : AnalysisDone(outcome)
  \/ \E raw \in RawClicks : ManualMapClick(raw)
  \/ \E index \in ClickableElevators : ElevatorClick(index)
  \/ CancelNavigation
  \/ \E x \in watches, g \in deviceFixes : WatchFix(x, g)
  \/ \E x \in watches : WatchError(x)
  \/ \E l \in lookups, g \in deviceFixes : LookupFix(l, g)
  \/ \E l \in lookups : LookupError(l)
  \/ BackendAnswers

Spec == Init /\ [][Next]_vars

\* The backend call of every request sent eventually returns or throws:
\* weak fairness of BackendAnswers.  The fair behaviours are explored for one
\* set of device positions: a fix 7.07 px from the elevator and a fix outside
\* the bounds.
LiveFixes == {GeoAt(695, 505), OutsideFix}
LiveInit == deviceFixes = LiveFixes /\ Mounted
LiveSpec == LiveInit /\ [][Next]_vars /\ WF_vars(BackendAnswers)

\* The component when the images the user uploads are 400 x 300, smaller than
\* the 800 x 600 the first placeholder plan assumes (App.tsx 1170), with an AI
\* client and geolocation.
ResizeInit ==
  /\ deviceFixes = {GeoAt(700, 475), OutsideFix}
  /\ Mounted
  /\ ai /\ geoSupported

ResizeNext ==
  \/ TriggerFileUpload
  \/ DismissFileChooser
  \/ \E img \in SmallImages : HandleFloorPlanUpload(Some(img))
  \/ \E outcome \in AnalysisOutcomes : AnalysisDone(outcome)
  \/ \E raw \in RawClicks : ManualMapClick(raw)
  \/ \E index \in ClickableElevators : ElevatorClick(index)
  \/ CancelNavigation
  \/ \E x \in watches, g \in deviceFixes : WatchFix(x, g)
  \/ \E x \in watches : WatchError(x)
  \/ \E l \in lookups, g \in deviceFixes : LookupFix(l, g)
  \/ \E l \in lookups : LookupError(l)
  \/ BackendAnswers

ResizeSpec == ResizeInit /\ [][ResizeNext]_vars

\* ---------------------------------------------------- the path provider alone
\* fetchAiPathAndInstructions applied to arguments drawn from small sets, with
\* and without an AI client and an image, on top of what an earlier request
\* may have left in the state.
ProviderElevators ==
  <<[id |-> <<1, 1>>, location |-> Pt(700, 500)],
    [id |-> <<1, 2>>, location |-> Pt(50, 300)]>>

ProviderPlans ==
  {[id |-> 1, loading |-> FALSE, hasImage |-> h,
    dimensions |-> [width |-> DEFAULT_WIDTH, height |-> DEFAULT_HEIGHT],
    elevators |-> ProviderElevators] : h \in BOOLEAN}

ProviderStarts == {Pt(100, 100), Pt(700, 475), Pt(0, 0)}

ProviderInit ==
  /\ deviceFixes = LiveFixes
  /\ ai \in BOOLEAN
  /\ geoSupported = TRUE
  /\ currentFloorPlan \in {Some(p) : p \in ProviderPlans}
  /\ userLocation \in {Some(s) : s \in ProviderStarts}
  /\ selectedElevator \in {Some(ProviderElevators[k]) : k \in 1..Len(ProviderElevators)}
  /\ path \in {None, Some(<<Pt(1, 1), Pt(2, 2), Pt(3, 3)>>)}
  /\ aiPathInstructions \in {None, Some(<<"i1", "i2">>)}
  /\ userGeoLocation = None
  /\ gpsStatus = "manualSet"
  /\ isGpsDerived = FALSE
  /\ isAnalyzingPlan = FALSE
  /\ nearestElevator = None
  /\ isFetchingAiPath = FALSE
  /\ isNavigatingWithGps = FALSE
  /\ targetElevatorGps = None
  /\ gpsWatchId = 0
  /\ watches = {}
  /\ cleanupId = 0
  /\ lookups = {}
  /\ requests = <<>>
  /\ upload = None
  /\ dialogOpen = FALSE
  /\ gen = 1
  /\ ev = NoEvent

\* One call of fetchAiPathAndInstructions, up to its await (App.tsx 755-844).
ProviderRequest ==
  /\ ev.op = "mount"
  /\ Install("fetchAiPathAndInstructions",
             [start |-> userLocation[1], target |-> selectedElevator[1],
              plan |-> currentFloorPlan[1]],
             fetchAiPathAndInstructions(World, userLocation[1], selectedElevator[1],
                                        currentFloorPlan[1]))
  /\ UNCHANGED <<upload, dialogOpen, gen>>

\* The awaited call of that request returns (App.tsx 846-884).
ProviderCompletion(outcome) ==
  /\ requests # <<>>
  /\ Install("fetchCompletion", [request |-> requests[1], outcome |-> outcome],
             fetchCompletion([World EXCEPT !.requests = RemoveAt(@, 1)],
                             requests[1], outcome))
  /\ UNCHANGED <<upload, dialogOpen, gen>>

ProviderNext ==
  \/ ProviderRequest
  \/ \E outcome \in Outcomes : ProviderCompletion(outcome)

ProviderSpec == ProviderInit /\ [][ProviderNext]_vars

\* ------------------------------------------------- the fix processor alone
\* processGpsLocation applied during live navigation to fixes and to states
\* drawn from small sets: with and without a previous location, a path,
\* instructions and a pending request.  The fixes are 0, 40, 41 and 141 px
\* from the previous location (600,400), one is an arrival and one lies
\* outside the bounds.
FixerFixes == {GeoAt(600, 400), GeoAt(600, 440), GeoAt(600, 441), GeoAt(700, 300),
               GeoAt(695, 505), OutsideFix}

FixerInit ==
  /\ deviceFixes = FixerFixes
  /\ ai = TRUE
  /\ geoSupported = TRUE
  /\ currentFloorPlan \in {Some(p) : p \in {q \in ProviderPlans : q.hasImage}}
  /\ userLocation \in {None, Some(Pt(600, 400))}
  /\ selectedElevator = Some(ProviderElevators[1])
  /\ path \in {None, Some(<<Pt(1, 1), Pt(2, 2), Pt(3, 3)>>)}
  /\ aiPathInstructions \in {None, Some(<<"i1", "i2">>)}
  /\ isFetchingAiPath \in BOOLEAN
  /\ requests = IF isFetchingAiPath
                THEN <<[start |-> Pt(100, 100), target |-> ProviderElevators[1],
                        plan |-> currentFloorPlan[1].id]>>
                ELSE <<>>
  /\ userGeoLocation = None
  /\ gpsStatus = "navigating"
  /\ isGpsDerived = FALSE
  /\ isAnalyzingPlan = FALSE
  /\ nearestElevator = None
  /\ isNavigatingWithGps = TRUE
  /\ targetElevatorGps = None
  /\ gpsWatchId = 0
  /\ watches = {}
  /\ cleanupId = 0
  /\ lookups = {}
  /\ upload = None
  /\ dialogOpen = FALSE
  /\ gen = 1
  /\ ev = NoEvent

\* One call of processGpsLocation by the callback of the current render.
FixerCall(geoPoint) ==
  /\ Install("watchFix", Some(geoPoint),
             processGpsLocation(Closure(State), World, geoPoint, None))
  /\ UNCHANGED <<upload, dialogOpen, gen>>

FixerNext == \E g \in deviceFixes : FixerCall(g)

FixerSpec == FixerInit /\ [][FixerNext]_vars

\* ------------------------------------------------ the navigation service alone
\* findNearestElevator, mapGeoToPixel and mapPixelToGeo applied to arguments
\* drawn from small sets.  The state variables hold the arguments and receive
\* the results, as they do in the component: userLocation the pixel point,
\* userGeoLocation the geographic point, nearestElevator the elevator found,
\* currentFloorPlan the image dimensions and the elevator list.
ServiceElevators ==
  {[id |-> <<1, 1>>, location |-> Pt(300, 300)],
   [id |-> <<1, 2>>, location |-> Pt(500, 300)],
   [id |-> <<1, 3>>, location |-> Pt(400, 500)]}

\* Every list of distinct elevators, the empty one included.
ServiceLists ==
  {l \in UNION {[1..n -> ServiceElevators] : n \in 0..Cardinality(ServiceElevators)} :
     \A i, j \in 1..Len(l) : l[i] = l[j] => i = j}

ServiceDims == {[width |-> DEFAULT_WIDTH, height |-> DEFAULT_HEIGHT],
                [width |-> 400, height |-> 300]}

ServicePlans ==
  {[id |-> 1, loading |-> FALSE, hasImage |-> TRUE, dimensions |-> d, elevators |-> l] :
     d \in ServiceDims, l \in ServiceLists}

\* Pixel points: (400,300) is 100 px from the elevators at (300,300) and
\* (500,300); (400,450) and (100,100) have one nearest elevator; (0,0) and
\* (800,600) are corners of the larger image, (500,400) lies outside the
\* smaller one.
ServicePixels == {Pt(400, 300), Pt(400, 450), Pt(100, 100), Pt(0, 0),
                  Pt(800, 600), Pt(500, 400), Pt(399, 299)}

\* Geographic points: north of, on and south of the latitude range, west
\* of, on and east of the longitude range, and points inside.
ServiceGeoPoints ==
  {[latitude |-> la, longitude |-> lo] :
     la \in {NW_LAT + 1, NW_LAT, NW_LAT - 1500, 340524500, 340524000, SE_LAT, SE_LAT - 1},
     lo \in {NW_LON - 1, NW_LON, NW_LON + 2500, 0 - 1182435000, SE_LON, SE_LON + 1}}

ServiceInit ==
  /\ deviceFixes = LiveFixes
  /\ ai = FALSE
  /\ geoSupported = TRUE
  /\ currentFloorPlan \in {Some(p) : p \in ServicePlans}
  /\ userLocation \in {Some(p) : p \in ServicePixels}
  /\ userGeoLocation \in {Some(g) : g \in ServiceGeoPoints}
  /\ selectedElevator = None
  /\ path = None
  /\ aiPathInstructions = None
  /\ gpsStatus = "manualSet"
  /\ isGpsDerived = FALSE
  /\ isAnalyzingPlan = FALSE
  /\ nearestElevator = None
  /\ isFetchingAiPath = FALSE
  /\ isNavigatingWithGps = FALSE
  /\ targetElevatorGps = None
  /\ gpsWatchId = 0
  /\ watches = {}
  /\ cleanupId = 0
  /\ lookups = {}
  /\ requests = <<>>
  /\ upload = None
  /\ dialogOpen = FALSE
  /\ gen = 1
  /\ ev = NoEvent

\* findNearestElevator(userLocation, currentFloorPlan.elevators).
CallFindNearestElevator ==
  /\ ev.op = "mount"
  /\ Install("findNearestElevator",
             [userLoc |-> userLocation[1], elevators |-> currentFloorPlan[1].elevators],
             [World EXCEPT !.st.nearestElevator =
                findNearestElevator(userLocation[1], currentFloorPlan[1].elevators)])
  /\ UNCHANGED <<upload, dialogOpen, gen>>

\* mapGeoToPixel(userGeoLocation, FLOOR_PLAN_GEO_BOUNDS, dimensions), on a
\* drawn point or on the result of mapPixelToGeo; first is then the argument
\* of that earlier call.
CallMapGeoToPixel ==
  /\ ev.op = "mount" \/ (ev.op = "mapPixelToGeo" /\ ev.arg.first = None)
  /\ userGeoLocation # None
  /\ Install("mapGeoToPixel",
             [geoPoint |-> userGeoLocation[1], dims |-> currentFloorPlan[1].dimensions,
              first |-> ev.arg],
             [World EXCEPT !.st.userLocation =
                mapGeoToPixel(userGeoLocation[1], FLOOR_PLAN_GEO_BOUNDS,
                              currentFloorPlan[1].dimensions)])
  /\ UNCHANGED <<upload, dialogOpen, gen>>

\* mapPixelToGeo(userLocation, FLOOR_PLAN_GEO_BOUNDS, dimensions), on a drawn
\* point or on the result of mapGeoToPixel.
CallMapPixelToGeo ==
  /\ ev.op = "mount" \/ (ev.op = "mapGeoToPixel" /\ ev.arg.first = None)
  /\ userLocation # None
  /\ Install("mapPixelToGeo",
             [pixelPoint |-> userLocation[1], dims |-> currentFloorPlan[1].dimensions,
              first |-> ev.arg],
             [World EXCEPT !.st.userGeoLocation =
                mapPixelToGeo(userLocation[1], FLOOR_PLAN_GEO_BOUNDS,
                              currentFloorPlan[1].dimensions)])
  /\ UNCHANGED <<upload, dialogOpen, gen>>

ServiceNext ==
  \/ CallFindNearestElevator
  \/ CallMapGeoToPixel
  \/ CallMapPixelToGeo

ServiceSpec == ServiceInit /\ [][ServiceNext]_vars

\* ---------------------------------------------- collapsed ranges of the mapping
\* mapGeoToPixel and mapPixelToGeo applied with bounds whose latitudes or
\* longitudes coincide and with images of width or height 0, next to the
\* bounds of constants.ts and an 800 x 600 image.
RangeBounds ==
  {[northWest |-> [latitude |-> NW_LAT, longitude |-> NW_LON],
    southEast |-> [latitude |-> la, longitude |-> lo]] :
     la \in {NW_LAT, SE_LAT}, lo \in {NW_LON, SE_LON}}

RangeDims == {[width |-> w, height |-> h] : w \in {0, DEFAULT_WIDTH}, h \in {0, DEFAULT_HEIGHT}}

RangePlans ==
  {[id |-> 1, loading |-> FALSE, hasImage |-> TRUE, dimensions |-> d, elevators |-> <<>>] :
     d \in RangeDims}

RangeGeoPoints ==
  {[latitude |-> la, longitude |-> lo] :
     la \in {NW_LAT, 340524500, SE_LAT, NW_LAT + 1},
     lo \in {NW_LON, 0 - 1182435000, SE_LON}}

RangePixels == {Pt(0, 0), Pt(400, 300), Pt(200, 450)}

RangeInit ==
  /\ deviceFixes = LiveFixes
  /\ ai = FALSE
  /\ geoSupported = TRUE
  /\ currentFloorPlan \in {Some(p) : p \in RangePlans}
  /\ userLocation \in {Some(p) : p \in RangePixels}
  /\ userGeoLocation \in {Some(g) : g \in RangeGeoPoints}
  /\ selectedElevator = None
  /\ path = None
  /\ aiPathInstructions = None
  /\ gpsStatus = "manualSet"
  /\ isGpsDerived = FALSE
  /\ isAnalyzingPlan = FALSE
  /\ nearestElevator = None
  /\ isFetchingAiPath = FALSE
  /\ isNavigatingWithGps = FALSE
  /\ targetElevatorGps = None
  /\ gpsWatchId = 0
  /\ watches = {}
  /\ cleanupId = 0
  /\ lookups = {}
  /\ requests = <<>>
  /\ upload = None
  /\ dialogOpen = FALSE
  /\ gen = 1
  /\ ev = NoEvent

\* mapGeoToPixel(userGeoLocation, bounds, dimensions).
RangeGeoToPixel(bounds) ==
  /\ ev.op = "mount"
  /\ Install("mapGeoToPixel",
             [geoPoint |-> userGeoLocation[1], bounds |-> bounds,
              dims |-> currentFloorPlan[1].dimensions],
             [World EXCEPT !.st.userLocation =
                mapGeoToPixel(userGeoLocation[1], bounds, currentFloorPlan[1].dimensions)])
  /\ UNCHANGED <<upload, dialogOpen, gen>>

\* mapPixelToGeo(userLocation, bounds, dimensions).
RangePixelToGeo(bounds) ==
  /\ ev.op = "mount"
  /\ Install("mapPixelToGeo",
             [pixelPoint |-> userLocation[1], bounds |-> bounds,
              dims |-> currentFloorPlan[1].dimensions],
             [World EXCEPT !.st.userGeoLocation =
                mapPixelToGeo(userLocation[1], bounds, currentFloorPlan[1].dimensions)])
  /\ UNCHANGED <<upload, dialogOpen, gen>>

RangeNext ==
  \/ \E bounds \in RangeBounds : RangeGeoToPixel(bounds)
  \/ \E bounds \in RangeBounds : RangePixelToGeo(bounds)

RangeSpec == RangeInit /\ [][RangeNext]_vars

\* =================================================================== claims
Last(seq) == seq[Len(seq)]

\* The elevator the path leads to: the selected one, else the nearest one.
Destination == IF selectedElevator # None THEN selectedElevator ELSE nearestElevator

\* C1: whenever a path is stored, it is non-empty, its first point is the
\* current userLocation and its last point is the location of the selected
\* elevator (of the nearest elevator when none is selected).
C1_PathEndpoints ==
  path # None =>
    /\ Len(path[1]) > 0
    /\ userLocation # None /\ path[1][1] = userLocation[1]
    /\ Destination # None /\ Last(path[1]) = Destination[1].location

\* C2: at most one path request is in flight at any time.
C2_OneRequestInFlight == Len(requests) <= 1

\* C3: whenever the pending flag is set it is eventually cleared, given that
\* the backend call of every request eventually returns or throws.
C3_PendingEventuallyClears == isFetchingAiPath ~> ~isFetchingAiPath

\* A request that threw has completed and the flag is clear.
C3_Witness ==
  /\ ev.op = "fetchCompletion" /\ ~isFetchingAiPath /\ requests = <<>>
  /\ aiPathInstructions = Some(ErrorInstructions)

\* C4: the pending flag goes from true to false only in the step that
\* completes a path request.
C4_PendingClearedOnlyByCompletion ==
  [][(isFetchingAiPath /\ ~isFetchingAiPath') => ev'.op = "fetchCompletion"]_vars

\* C5: live navigation implies a registered location watch, and a watch is
\* registered only with a selected elevator and a floor plan.
C5_NavigationAndWatch ==
  /\ isNavigatingWithGps => watches # {}
  /\ watches # {} => selectedElevator # None /\ currentFloorPlan # None

\* Live navigation is on and its watch is registered.
C5_Witness == isNavigatingWithGps /\ watches # {} /\ selectedElevator # None

\* C6: the step of an upload that resets the navigation state leaves the
\* locations, the elevators, the path and the instructions absent, the three
\* flags false and no watch registered.
C6_ResetLeavesNothing ==
  [][gen' # gen =>
       /\ userLocation' = None /\ userGeoLocation' = None
       /\ selectedElevator' = None /\ nearestElevator' = None
       /\ path' = None /\ aiPathInstructions' = None
       /\ ~isGpsDerived' /\ ~isFetchingAiPath' /\ ~isNavigatingWithGps'
       /\ watches' = {} /\ gpsWatchId' = 0]_vars

\* An upload has just reset a state that had a path request outstanding, hence
\* a location and a selected elevator.
C6_Witness ==
  /\ ev.op = "handleFloorPlanUpload" /\ requests # <<>>
  /\ userLocation = None /\ selectedElevator = None /\ ~isFetchingAiPath

\* The plan the map shows is the analysed plan number id.
ShowsPlan(id) ==
  currentFloorPlan # None /\ currentFloorPlan[1].id = id /\ ~currentFloorPlan[1].loading

\* C7: nothing computed for a previous plan is in the state after the plan
\* was replaced: the completion of a request sent for a plan that is no
\* longer shown stores neither path nor instructions, and no location
\* survives the installation of an analysed plan.
C7_NothingFromPreviousPlan ==
  [][/\ \A i \in 1..Len(requests) :
          (requests' = RemoveAt(requests, i) /\ ~ShowsPlan(requests[i].plan))
             => path' = path /\ aiPathInstructions' = aiPathInstructions
     /\ (ev'.op = "analysisDone" /\ currentFloorPlan' # None) => userLocation' = None]_vars

\* The pixel a fix just processed maps to (processGpsLocation stores the fix
\* in userGeoLocation before it projects it).
FixPixel == mapGeoToPixel(userGeoLocation'[1], FLOOR_PLAN_GEO_BOUNDS, currentFloorPlan[1].dimensions)

\* A watch fix arrives during live navigation and maps into the plan.
NavigationFix ==
  /\ ev'.op = "watchFix" /\ isNavigatingWithGps /\ selectedElevator # None
  /\ currentFloorPlan # None /\ userGeoLocation' # None /\ FixPixel # None

\* C8: a watch fix during live navigation that maps closer to the target
\* than the arrival threshold ends navigation, stops the watch, clears the
\* path, reports the arrival and sends no path request.
C8_ArrivalOnFix ==
  [][(NavigationFix /\ arrivedAtTarget(FixPixel[1], selectedElevator[1].location)) =>
       /\ ~isNavigatingWithGps' /\ watches' = {} /\ gpsWatchId' = 0
       /\ path' = None
       /\ gpsStatus' = "arrived"
       /\ ev'.issued = 0]_vars

C10_Cancel ==
  [][ev'.op = "cancel" =>
       /\ watches' = {} /\ gpsWatchId' = 0 /\ ~isNavigatingWithGps'
       /\ gpsStatus' = "cancelled"
       /\ userLocation' = userLocation /\ selectedElevator' = selectedElevator
       /\ path' = path /\ aiPathInstructions' = aiPathInstructions]_vars

\* The step is a location fix, from the watch or from a one-shot lookup.
FixStep == ev'.op \in {"watchFix", "lookupFix"}

\* The geographic point lies outside the calibrated bounds.
OutsideBounds(g) ==
  \/ g.latitude > NW_LAT \/ g.latitude < SE_LAT
  \/ g.longitude < NW_LON \/ g.longitude > SE_LON

\* C11: a fix outside the calibrated bounds leaves userLocation, the selected
\* elevator, the path and the instructions unchanged, sends no path request
\* and sets an "outside mapped area" status.
C11_OutsideFixKeepsState ==
  [][(FixStep /\ OutsideBounds(ev'.arg[1])) =>
       /\ userLocation' = userLocation /\ selectedElevator' = selectedElevator
       /\ path' = path /\ aiPathInstructions' = aiPathInstructions
       /\ ev'.issued = 0 /\ requests' = requests
       /\ gpsStatus' \in {"outside", "navOutside"}]_vars

\* An outside fix arrived during live navigation with a path on the map.
C11_Witness ==
  /\ ev.op = "watchFix" /\ ev.arg = Some(OutsideFix) /\ gpsStatus = "navOutside"
  /\ path # None /\ userLocation # None /\ selectedElevator # None

\* C12 as stated: on a fix outside the plan's bounds userGeoLocation and
\* isGpsDerived keep the values they had before the fix.
C12_MissPreservesGeoAndLive ==
  [][(FixStep /\ OutsideBounds(ev'.arg[1])) =>
       /\ userGeoLocation' = userGeoLocation
       /\ isGpsDerived' = isGpsDerived]_vars

\* C12 amended: on a fix outside the plan's bounds userLocation keeps its
\* value, userGeoLocation becomes the point of the fix and isGpsDerived
\* becomes false.
C12_MissRecordsFixNotLive ==
  [][(FixStep /\ OutsideBounds(ev'.arg[1])) =>
       /\ userLocation' = userLocation
       /\ userGeoLocation' = ev'.arg
       /\ isGpsDerived' = FALSE]_vars

\* An outside fix was recorded while the marker stays where an earlier fix
\* inside the plan put it.
C12_Witness ==
  /\ ev.op \in {"watchFix", "lookupFix"}
  /\ ev.arg = Some(OutsideFix) /\ userGeoLocation = Some(OutsideFix)
  /\ ~isGpsDerived
  /\ userLocation \in {mapGeoToPixel(g, FLOOR_PLAN_GEO_BOUNDS, ImageDims("A")) :
                         g \in deviceFixes \ {OutsideFix}}

\* The step is the completion of a path request; ev'.arg holds the request
\* and what the backend call did.
CompletionStep == ev'.op = "fetchCompletion"

\* What fetchAiPathAndInstructions stores when the step's request completes.
Stored == fetchCompletion(World, ev'.arg.request, ev'.arg.outcome).st

\* The straight line of the step's request.
StraightLine == <<ev'.arg.request.start, ev'.arg.request.target.location>>

\* The request was sent for the plan that is still shown, with a location on
\* the map: no reset happened since it was sent.
StillCurrent ==
  /\ userLocation # None /\ currentFloorPlan # None
  /\ currentFloorPlan[1].id = ev'.arg.request.plan

\* What was stored is what the state holds once the effects have run.
StoredSurvives ==
  StillCurrent => /\ path' = Stored.path
                  /\ aiPathInstructions' = Stored.aiPathInstructions

\* C13: when the backend call throws or returns text that does not parse or
\* fails the structure test, the path stored is exactly <<start,
\* target.location>> and the instructions stored are the fixed list of three
\* lines, whatever the start and the target of the request.
C13_FailureStoresFallback ==
  [][(CompletionStep /\ Throws(ev'.arg.outcome)) =>
       /\ Stored.path = Some(StraightLine)
       /\ Stored.aiPathInstructions = Some(ErrorInstructions)
       /\ Len(ErrorInstructions) = 3
       /\ StoredSurvives]_vars

\* A response that fails the parse or the structure test left the straight
\* line and the three lines in the state.
C13_Witness ==
  /\ ev.op = "fetchCompletion" /\ ev.arg.outcome # None /\ Throws(ev.arg.outcome)
  /\ path = Some(<<ev.arg.request.start, ev.arg.request.target.location>>)
  /\ aiPathInstructions = Some(ErrorInstructions)

\* The backend answered with a response that passes the structure test and
\* has at least two coordinates and at least one instruction.
ValidResponse(outcome) ==
  /\ ~Throws(outcome)
  /\ Len(outcome[1].coords[1]) >= 2 /\ Len(outcome[1].instr[1]) >= 1

\* C14: for a structurally valid response with at least two coordinates and
\* one instruction, the path stored has the length of the returned sequence
\* and its interior points; its first point is the start of the request and
\* its last point the location of the target elevator.
C14_ValidatedPath ==
  [][(CompletionStep /\ ValidResponse(ev'.arg.outcome)) =>
       LET returned == ev'.arg.outcome[1].coords[1]
           n == Len(returned)
       IN /\ Stored.path # None
          /\ Len(Stored.path[1]) = n
          /\ \A k \in 2..(n - 1) : Stored.path[1][k] = returned[k]
          /\ Stored.path[1][1] = ev'.arg.request.start
          /\ Stored.path[1][n] = ev'.arg.request.target.location
          /\ StoredSurvives]_vars

\* A response of three coordinates whose end points differ from the
\* request's was stored with its interior point and corrected end points.
C14_Witness ==
  /\ ev.op = "fetchCompletion" /\ ValidResponse(ev.arg.outcome)
  /\ Len(ev.arg.outcome[1].coords[1]) = 3
  /\ ev.arg.outcome[1].coords[1][1] # ev.arg.request.start
  /\ ev.arg.outcome[1].coords[1][3] # ev.arg.request.target.location
  /\ path = Some(<<ev.arg.request.start, ev.arg.outcome[1].coords[1][2],
                   ev.arg.request.target.location>>)

\* C15: after a path request has settled, whatever the backend did, the state
\* holds a path of at least two points and a non-empty list of instructions.
C15_SettledRequestLeavesPath ==
  [][CompletionStep =>
       /\ path' # None /\ Len(path'[1]) >= 2
       /\ aiPathInstructions' # None /\ Len(aiPathInstructions'[1]) >= 1]_vars

\* The step is a call of the path provider without an AI client or for a plan
\* without image data.
UnavailableCall ==
  /\ ev'.op = "fetchAiPathAndInstructions"
  /\ ~ai \/ ~ev'.arg.plan.hasImage

\* C16: without an AI client or without image data, a path request at once
\* stores the path <<start, target.location>> and one advisory instruction,
\* sets the "unavailable" status, sends nothing to the backend and does not
\* set the pending flag.
C16_UnavailableShortCircuit ==
  [][UnavailableCall =>
       /\ path' = Some(<<ev'.arg.start, ev'.arg.target.location>>)
       /\ aiPathInstructions' # None /\ Len(aiPathInstructions'[1]) = 1
       /\ gpsStatus' = "aiUnavailable"
       /\ ev'.issued = 0 /\ requests' = <<>>
       /\ ~isFetchingAiPath']_vars

\* The provider was called without an AI client for a plan that has an image
\* and left the straight line and the advisory instruction.
C16_Witness ==
  /\ ev.op = "fetchAiPathAndInstructions" /\ ~ai /\ ev.arg.plan.hasImage
  /\ path = Some(<<ev.arg.start, ev.arg.target.location>>)
  /\ aiPathInstructions = Some(<<"AI pathfinding is currently unavailable.">>)
  /\ ~isFetchingAiPath /\ requests = <<>>

\* The backend answered with a response that passes the structure test but
\* has fewer than two coordinates or no instruction.
PartialResponse(outcome) ==
  /\ ~Throws(outcome)
  /\ Len(outcome[1].coords[1]) < 2 \/ Len(outcome[1].instr[1]) = 0

\* C17: for a structurally valid response with fewer than two coordinates or
\* without instructions, the path stored is the straight line <<start,
\* target.location>> and the instructions stored are the returned ones when
\* there are any, else the generic fallback list.
C17_PartialResponse ==
  [][(CompletionStep /\ PartialResponse(ev'.arg.outcome)) =>
       LET returned == ev'.arg.outcome[1].instr[1]
       IN /\ Stored.path = Some(StraightLine)
          /\ Len(returned) > 0 => Stored.aiPathInstructions = Some(returned)
          /\ Len(returned) = 0 => Stored.aiPathInstructions = Some(GenericInstructions)
          /\ Len(GenericInstructions) > 0
          /\ StoredSurvives]_vars

\* A response of one coordinate and one instruction left the straight line
\* and the returned instruction in the state.
C17_Witness ==
  /\ ev.op = "fetchCompletion" /\ PartialResponse(ev.arg.outcome)
  /\ Len(ev.arg.outcome[1].coords[1]) = 1
  /\ path = Some(<<ev.arg.request.start, ev.arg.request.target.location>>)
  /\ aiPathInstructions = ev.arg.outcome[1].instr
  /\ aiPathInstructions # Some(GenericInstructions)

\* A click on the map would be taken: the map is rendered and the guard of
\* handleManualMapClick (App.tsx 998) lets the click through.
ManualClickAccepted ==
  /\ currentFloorPlan # None /\ currentFloorPlan[1].hasImage
  /\ ~isAnalyzingPlan /\ ~isFetchingAiPath

\* C18: when the watch reports an error, navigation stops
\* (isNavigatingWithGps false, no watch registered, the status reports the
\* error), userLocation and the selected elevator keep their values, and a
\* click on the map is accepted as soon as no path request is pending.
C18_WatchError ==
  [][ev'.op = "watchError" =>
       /\ ~isNavigatingWithGps' /\ watches' = {} /\ gpsWatchId' = 0
       /\ gpsStatus' = "navError"
       /\ userLocation' = userLocation /\ selectedElevator' = selectedElevator
       /\ ~isFetchingAiPath' => ManualClickAccepted']_vars

\* The step stops navigation (cancel, arrival, watch error, reset) or
\* replaces the plan on the map.
StopsOrSwitches ==
  \/ isNavigatingWithGps /\ ~isNavigatingWithGps'
  \/ currentFloorPlan' # currentFloorPlan

\* C19: a step that stops navigation or switches the floor plan stops the
\* watch within the step: no watch registered before it is registered after
\* it, none at all while navigation stays stopped, and a fix of a watch is
\* processed only while navigation is running.
C19_WatchStoppedWithNavigation ==
  [][/\ StopsOrSwitches => /\ watches' \cap watches = {}
                           /\ ~isNavigatingWithGps' => watches' = {}
     /\ ev'.op = "watchFix" => isNavigatingWithGps /\ selectedElevator # None]_vars

\* Navigation to an elevator was cancelled and no watch is left.
C19_Witness ==
  /\ ev.op = "cancel" /\ ~isNavigatingWithGps /\ selectedElevator # None
  /\ watches = {} /\ gpsWatchId = 0

\* The step is a click on the map of a plan with at least one elevator while
\* no analysis and no path request is pending.
ManualClickStep ==
  /\ ev'.op = "handleManualMapClick"
  /\ currentFloorPlan # None /\ Len(currentFloorPlan[1].elevators) >= 1
  /\ ~isAnalyzingPlan /\ ~isFetchingAiPath

\* What every such click does: the location is the clicked point and not
\* live, the target is the elevator nearest to it and one path request from
\* the point to that elevator is sent.
ManualClickSetsTarget ==
  /\ userLocation' = ev'.arg
  /\ ~isGpsDerived'
  /\ selectedElevator' # None
  /\ \E k \in 1..Len(currentFloorPlan[1].elevators) :
        selectedElevator'[1] = currentFloorPlan[1].elevators[k]
  /\ \A k \in 1..Len(currentFloorPlan[1].elevators) :
        Dist2(ev'.arg[1], selectedElevator'[1].location)
          <= Dist2(ev'.arg[1], currentFloorPlan[1].elevators[k].location)
  /\ ev'.issued = 1 /\ requests' # <<>>
  /\ Last(requests').start = ev'.arg[1]
  /\ Last(requests').target = selectedElevator'[1]
  /\ isFetchingAiPath'

\* Navigation is on and the watch is registered.
NavigatingWithWatch ==
  isNavigatingWithGps /\ watches # {} /\ gpsWatchId # 0

\* C20 as stated: such a click also leaves navigation on with a watch
\* started.
C20_ManualClickStartsNavigation ==
  [][ManualClickStep => ManualClickSetsTarget /\ NavigatingWithWatch']_vars

\* C20 amended: navigation is left on with a watch started when the browser
\* has geolocation; without it the watch effect stops navigation again within
\* the step and no watch is registered.
C20_ManualClickNavigationIfSupported ==
  [][ManualClickStep =>
       /\ ManualClickSetsTarget
       /\ geoSupported => NavigatingWithWatch'
       /\ ~geoSupported => ~isNavigatingWithGps' /\ watches' = {}]_vars

\* A click set the target and sent the request, and navigation runs.
C20_Witness ==
  /\ ev.op = "handleManualMapClick" /\ ev.issued = 1 /\ geoSupported
  /\ userLocation = ev.arg /\ ~isGpsDerived /\ selectedElevator # None
  /\ NavigatingWithWatch /\ isFetchingAiPath
  /\ Last(requests).start = userLocation[1]

\* The step is a click on the map of a plan without elevators while no
\* analysis and no path request is pending.
ManualClickNoElevators ==
  /\ ev'.op = "handleManualMapClick"
  /\ currentFloorPlan # None /\ Len(currentFloorPlan[1].elevators) = 0
  /\ ~isAnalyzingPlan /\ ~isFetchingAiPath

\* C21: a click on the map of a plan without elevators leaves no selected
\* elevator and no path, sends no path request, does not start navigation
\* and sets the "no elevators" status.
C21_ManualClickNoElevators ==
  [][ManualClickNoElevators =>
       /\ userLocation' = ev'.arg
       /\ selectedElevator' = None /\ path' = None
       /\ ev'.issued = 0 /\ requests' = requests
       /\ ~isNavigatingWithGps' /\ watches' = {}
       /\ gpsStatus' = "noElevators"]_vars

\* The step is a click on an elevator marker that is taken: no analysis and
\* no path request is pending (a click while one is pending is dropped,
\* App.tsx 1020).
ElevatorClickStep ==
  /\ ev'.op = "handleElevatorClick"
  /\ currentFloorPlan # None /\ ev'.arg[1] \in 1..Len(currentFloorPlan[1].elevators)
  /\ ~isAnalyzingPlan /\ ~isFetchingAiPath

\* The elevator whose marker was clicked.
ClickedElevator == currentFloorPlan[1].elevators[ev'.arg[1]]

\* C22: a click on an elevator selects it.  With a known userLocation a path
\* request from userLocation to the elevator is sent and navigation begins;
\* without one the path stays absent, no request is sent, navigation is not
\* started and the status asks for a location.
C22_ElevatorClick ==
  [][ElevatorClickStep =>
       /\ selectedElevator' = Some(ClickedElevator)
       /\ userLocation # None =>
            /\ ev'.issued = 1 /\ requests' # <<>>
            /\ Last(requests').start = userLocation[1]
            /\ Last(requests').target = ClickedElevator
            /\ isNavigatingWithGps' /\ watches' # {}
       /\ userLocation = None =>
            /\ path' = None /\ ev'.issued = 0 /\ requests' = requests
            /\ ~isNavigatingWithGps' /\ watches' = {}
            /\ gpsStatus' = "targeting"]_vars

\* ---- the navigation service (ServiceSpec)
\* The indices of the elevators of l at the minimum distance from p.
AtMinimum(p, l) ==
  {i \in 1..Len(l) :
     \A j \in 1..Len(l) : Dist2(p, l[i].location) <= Dist2(p, l[j].location)}

\* Every reordering of the list l.
Permuted(l) == {[i \in 1..Len(l) |-> l[f[i]]] : f \in Permutations(1..Len(l))}

\* C23: findNearestElevator returns none for an empty list; for a non-empty
\* list it returns an elevator at the minimum distance from the point, namely
\* the first such elevator in list order, and when only one elevator is at
\* the minimum every reordering of the list gives the same elevator.
C23_FindNearestElevator ==
  [][ev'.op = "findNearestElevator" =>
       LET p == ev'.arg.userLoc
           l == ev'.arg.elevators
           m == AtMinimum(p, l)
       IN /\ Len(l) = 0 => nearestElevator' = None
          /\ Len(l) > 0 =>
               /\ \E i \in m : nearestElevator' = Some(l[i])
               /\ nearestElevator' = Some(l[CHOOSE i \in m : \A j \in m : i <= j])
               /\ Cardinality(m) = 1 =>
                    \A q \in Permuted(l) : findNearestElevator(p, q) = nearestElevator']_vars

\* Two elevators tie for the minimum, neither is the head of the list, and
\* the earlier of the two was returned.
C23_Witness ==
  /\ ev.op = "findNearestElevator"
  /\ Len(ev.arg.elevators) = 3
  /\ AtMinimum(ev.arg.userLoc, ev.arg.elevators) = {2, 3}
  /\ nearestElevator = Some(ev.arg.elevators[2])

GeoToPixelStep == ev'.op = "mapGeoToPixel"

\* The point lies north or south of the latitudes of the bounds, or west or
\* east of their longitudes.
OutsideRectangle(g, bounds) ==
  \/ g.latitude > bounds.northWest.latitude
  \/ g.latitude < bounds.southEast.latitude
  \/ g.longitude < bounds.northWest.longitude
  \/ g.longitude > bounds.southEast.longitude

\* C24: mapGeoToPixel returns none exactly for the points whose latitude is
\* greater than the north-west latitude or less than the south-east one, or
\* whose longitude is less than the north-west longitude or greater than the
\* south-east one; a point on the border of the rectangle gets a pixel.
C24_RejectsExactlyOutside ==
  [][GeoToPixelStep =>
       (userLocation' = None <=> OutsideRectangle(ev'.arg.geoPoint, FLOOR_PLAN_GEO_BOUNDS))]_vars

\* A point on the northern border, between the corners, was given a pixel.
C24_Witness ==
  /\ ev.op = "mapGeoToPixel"
  /\ ev.arg.geoPoint.latitude = NW_LAT
  /\ ev.arg.geoPoint.longitude = NW_LON + 2500
  /\ userLocation # None

\* The fix (34.0524, -118.2435) and the point (34.05245, -118.2435) half way
\* between the corners of the bounds.
ScenarioFix == [latitude |-> 340524000, longitude |-> 0 - 1182435000]
MidpointFix == [latitude |-> 340524500, longitude |-> 0 - 1182435000]

ScenarioDims == [width |-> 800, height |-> 600]

ScenarioStep(g) ==
  /\ GeoToPixelStep
  /\ ev'.arg.geoPoint = g
  /\ ev'.arg.dims = ScenarioDims

\* C25, as stated: with the bounds of constants.ts and an 800 x 600 image,
\* mapGeoToPixel maps the fix (34.0524, -118.2435) to the pixel (400, 300).
C25_FixMapsToCentre ==
  [][ScenarioStep(ScenarioFix) => userLocation' = Some(Pt(400, 300))]_vars

\* C25, amended: the fix (34.0524, -118.2435) maps to x = 400 and to
\* y = 1000/3 = 333.33.., five ninths of the height (the whole part, 333, in
\* this model); the pixel (400, 300) is the image of (34.05245, -118.2435).
C25_FixMapsBelowCentre ==
  [][/\ ScenarioStep(ScenarioFix) =>
          /\ (NW_LAT - ScenarioFix.latitude) * ScenarioDims.height * 3 = 1000 * (NW_LAT - SE_LAT)
          /\ userLocation' # None
          /\ userLocation'[1].x = 400
          /\ 3 * userLocation'[1].y <= 1000
          /\ 1000 < 3 * (userLocation'[1].y + 1)
     /\ ScenarioStep(MidpointFix) => userLocation' = Some(Pt(400, 300))]_vars

\* The fix of the scenario was mapped, 33 pixels below the centre.
C25_Witness ==
  /\ ev.op = "mapGeoToPixel"
  /\ ev.arg.geoPoint = ScenarioFix
  /\ ev.arg.dims = ScenarioDims
  /\ userLocation = Some(Pt(400, 333))

Abs(n) == IF n < 0 THEN 0 - n ELSE n

StrictlyInsideBounds(g, bounds) ==
  /\ g.latitude < bounds.northWest.latitude /\ g.latitude > bounds.southEast.latitude
  /\ g.longitude > bounds.northWest.longitude /\ g.longitude < bounds.southEast.longitude

StrictlyInsideImage(p, dims) ==
  /\ 0 < p.x /\ p.x < dims.width
  /\ 0 < p.y /\ p.y < dims.height

\* The range mapping of the value is a whole number.
WholeImage(value, inMin, inMax, outMin, outMax) ==
  ((value - inMin) * (outMax - outMin)) % Abs(inMax - inMin) = 0

\* mapGeoToPixel gives the point a pixel with whole coordinates.
WholePixel(g, bounds, dims) ==
  /\ WholeImage(g.longitude, bounds.northWest.longitude, bounds.southEast.longitude, 0, dims.width)
  /\ WholeImage(g.latitude, bounds.northWest.latitude, bounds.southEast.latitude, 0, dims.height)

\* mapPixelToGeo applied to the result of mapGeoToPixel(g), and mapGeoToPixel
\* applied to the result of mapPixelToGeo(p).
GeoRoundTrip ==
  /\ ev.op = "mapGeoToPixel" /\ ev'.op = "mapPixelToGeo"
  /\ StrictlyInsideBounds(ev.arg.geoPoint, FLOOR_PLAN_GEO_BOUNDS)

PixelRoundTrip ==
  /\ ev.op = "mapPixelToGeo" /\ ev'.op = "mapGeoToPixel"
  /\ StrictlyInsideImage(ev.arg.pixelPoint, ev.arg.dims)

\* C26: for a geographic point g strictly inside the bounds,
\* mapPixelToGeo(mapGeoToPixel(g)) is g up to the rounding of the pixel (less
\* than one pixel of longitude and of latitude, and g itself when the pixel
\* has whole coordinates); for a pixel p strictly inside the image,
\* mapGeoToPixel(mapPixelToGeo(p)) is p.
C26_RoundTrip ==
  [][/\ GeoRoundTrip =>
          LET g == ev.arg.geoPoint
              dims == ev.arg.dims
              b == FLOOR_PLAN_GEO_BOUNDS
          IN /\ userGeoLocation' # None
             /\ Abs(userGeoLocation'[1].longitude - g.longitude) * dims.width
                  < Abs(b.southEast.longitude - b.northWest.longitude)
             /\ Abs(userGeoLocation'[1].latitude - g.latitude) * dims.height
                  < Abs(b.southEast.latitude - b.northWest.latitude)
             /\ WholePixel(g, b, dims) => userGeoLocation' = Some(g)
     /\ PixelRoundTrip => userLocation' = Some(ev.arg.pixelPoint)]_vars

\* A point strictly inside the bounds was mapped to its pixel, (100,100), and
\* came back from it.
C26_Witness ==
  /\ ev.op = "mapPixelToGeo"
  /\ ev.arg.first # None
  /\ ev.arg.first.geoPoint = [latitude |-> NW_LAT - 1500, longitude |-> NW_LON + 2500]
  /\ ev.arg.pixelPoint = Pt(100, 100)
  /\ userGeoLocation = Some(ev.arg.first.geoPoint)

\* C27: a pixel returned by mapGeoToPixel has 0 <= x <= width and
\* 0 <= y <= height; the north-west corner of the bounds maps to (0,0) and
\* the south-east corner to (width, height).
C27_PixelWithinImage ==
  [][GeoToPixelStep =>
       LET g == ev'.arg.geoPoint
           dims == ev'.arg.dims
       IN /\ userLocation' # None =>
               /\ 0 <= userLocation'[1].x /\ userLocation'[1].x <= dims.width
               /\ 0 <= userLocation'[1].y /\ userLocation'[1].y <= dims.height
          /\ g = FLOOR_PLAN_GEO_BOUNDS.northWest => userLocation' = Some(Pt(0, 0))
          /\ g = FLOOR_PLAN_GEO_BOUNDS.southEast =>
               userLocation' = Some(Pt(dims.width, dims.height))]_vars

\* The south-east corner was mapped onto the 400 x 300 image.
C27_Witness ==
  /\ ev.op = "mapGeoToPixel"
  /\ ev.arg.geoPoint = FLOOR_PLAN_GEO_BOUNDS.southEast
  /\ ev.arg.dims = [width |-> 400, height |-> 300]
  /\ userLocation = Some(Pt(400, 300))

\* ---- plans of another size (ResizeSpec)
\* C28: userLocation, when present, lies within [0, width] x [0, height] of
\* the dimensions of the current floor plan.
C28_LocationWithinPlan ==
  (userLocation # None /\ currentFloorPlan # None) =>
    /\ 0 <= userLocation[1].x
    /\ userLocation[1].x <= currentFloorPlan[1].dimensions.width
    /\ 0 <= userLocation[1].y
    /\ userLocation[1].y <= currentFloorPlan[1].dimensions.height

\* ---- fixes during live navigation (Spec)
\* A fix, from the watch or from a one-shot lookup, arrives during live
\* navigation, maps into the plan and is no arrival.
NavigationFixNoArrival ==
  /\ FixStep /\ isNavigatingWithGps /\ selectedElevator # None
  /\ currentFloorPlan # None /\ userGeoLocation' # None /\ FixPixel # None
  /\ ~arrivedAtTarget(FixPixel[1], selectedElevator[1].location)

\* C29: a fix during live navigation that is no arrival and finds a path
\* replaces the first point of the path with the new pixel location, keeps
\* the other points and the instructions and sends no path request.
C29_FixSlidesFirstPoint ==
  [][(NavigationFixNoArrival /\ path # None) =>
       /\ path' = Some([path[1] EXCEPT ![1] = FixPixel[1]])
       /\ aiPathInstructions' = aiPathInstructions
       /\ ev'.issued = 0 /\ requests' = requests]_vars

\* ---- the fix processor (FixerSpec)
\* The fix is the first one or maps more than 2 x MARKER_SIZE pixels away
\* from the previous location.
Displaced ==
  \/ userLocation = None
  \/ Dist2(FixPixel[1], userLocation[1]) > (2 * MARKER_SIZE) * (2 * MARKER_SIZE)

C31_PendingFixKeepsPath ==
  [][(NavigationFixNoArrival /\ isFetchingAiPath) =>
       /\ path' = path /\ aiPathInstructions' = aiPathInstructions
       /\ selectedElevator' = selectedElevator
       /\ isFetchingAiPath' = isFetchingAiPath
       /\ isNavigatingWithGps' = isNavigatingWithGps
       /\ ev'.issued = 0 /\ requests' = requests]_vars

\* A fix arrives while no elevator is selected and maps into the plan.
UntargetedFix ==
  /\ FixStep /\ selectedElevator = None
  /\ currentFloorPlan # None /\ userGeoLocation' # None /\ FixPixel # None

C33_NearestElevator ==
  /\ selectedElevator # None => nearestElevator = None
  /\ (userLocation # None /\ currentFloorPlan # None /\ selectedElevator = None) =>
       LET l == currentFloorPlan[1].elevators
       IN /\ nearestElevator = findNearestElevator(userLocation[1], l)
          /\ Len(l) = 0 => nearestElevator = None
          /\ Len(l) > 0 => \E i \in AtMinimum(userLocation[1], l) : nearestElevator = Some(l[i])

\* An elevator was clicked after a fix had given a location and a nearest
\* elevator, and the nearest elevator is gone.
C33_Witness ==
  /\ ev.op = "handleElevatorClick" /\ selectedElevator # None
  /\ userLocation # None /\ isGpsDerived
  /\ nearestElevator = None

\* C34: the one-shot lookup is sent when a plan is loaded and by nothing
\* else: a step that leaves the current plan as it is puts no new lookup in
\* flight.
C34_LookupOncePerPlan ==
  [][currentFloorPlan' = currentFloorPlan => lookups' \subseteq lookups]_vars

\* ---- collapsed ranges (RangeSpec)
\* C35: where the input range of the mapping is a single value the result
\* is the midpoint of the output range.  mapGeoToPixel gives a point that it
\* does not reject the pixel width / 2 when the longitudes of the bounds
\* coincide and height / 2 when the latitudes do; mapPixelToGeo gives the
\* middle longitude of the bounds for an image of width 0 and the middle
\* latitude for one of height 0, and always returns a point.
C35_CollapsedRange ==
  [][/\ ev'.op = "mapGeoToPixel" =>
          LET b == ev'.arg.bounds
              dims == ev'.arg.dims
          IN /\ userLocation' = None <=> OutsideRectangle(ev'.arg.geoPoint, b)
             /\ (userLocation' # None /\ b.northWest.longitude = b.southEast.longitude) =>
                  2 * userLocation'[1].x = dims.width
             /\ (userLocation' # None /\ b.northWest.latitude = b.southEast.latitude) =>
                  2 * userLocation'[1].y = dims.height
     /\ ev'.op = "mapPixelToGeo" =>
          LET b == ev'.arg.bounds
              dims == ev'.arg.dims
          IN /\ userGeoLocation' # None
             /\ dims.width = 0 =>
                  2 * (userGeoLocation'[1].longitude - b.northWest.longitude) =
                    b.southEast.longitude - b.northWest.longitude
             /\ dims.height = 0 =>
                  2 * (userGeoLocation'[1].latitude - b.northWest.latitude) =
                    b.southEast.latitude - b.northWest.latitude]_vars

\* The north-west corner was mapped with bounds collapsed to that corner
\* onto an 800 x 600 image and got the centre of the image.
C35_Witness ==
  /\ ev.op = "mapGeoToPixel"
  /\ ev.arg.bounds.southEast = ev.arg.bounds.northWest
  /\ ev.arg.geoPoint = ev.arg.bounds.northWest
  /\ ev.arg.dims = [width |-> 800, height |-> 600]
  /\ userLocation = Some(Pt(400, 300))

\* ---- pending request (Spec)
\* C36: whenever a path request is pending there is neither a path nor
\* instructions.
C36_PendingHasNoPath ==
  isFetchingAiPath => (path = None /\ aiPathInstructions = None)

\* ---- dropped clicks (Spec)
\* C37: a manual map click or an elevator click made while a path request
\* is pending changes nothing: location, selection, path, instructions,
\* navigation flag, status, watch, lookups and requests are as before and no
\* request is sent.  While a plan is being analysed the map is not shown;
\* the two handlers, applied in such a state, return without a change too.
C37_ClickDropped ==
  [][/\ (ev'.op \in {"handleManualMapClick", "handleElevatorClick"} /\ isFetchingAiPath) =>
          /\ UNCHANGED <<reactVars, watches, lookups, requests, cleanupId>>
          /\ ev'.issued = 0
     /\ isAnalyzingPlan =>
          /\ \A raw \in RawClicks :
               handleManualMapClick(Closure(State), World, raw) = World
          /\ \A index \in 1..2 :
               handleElevatorClick(Closure(State), World, index) = World]_vars

\* A click was made while a request was pending and left the request pending.
C37_Witness ==
  /\ ev.op \in {"handleManualMapClick", "handleElevatorClick"}
  /\ ev.issued = 0
  /\ isFetchingAiPath
  /\ selectedElevator # None
  /\ path = None

\* ---- after an arrival (Spec)
\* A watch fix is processed only during live navigation and ends it only by
\* an arrival: the last step was an arrival.
JustArrived == ev.op = "watchFix" /\ ~isNavigatingWithGps /\ selectedElevator # None

\* Steps of the user: clicks, the file chooser and the Cancel button.
UserOps ==
  {"handleManualMapClick", "handleElevatorClick", "triggerFileUpload",
   "dismissFileChooser", "handleFloorPlanUpload", "cancel"}

\* C38: after an arrival a step that is not an action of the user (the
\* completion of a request, a fix or an error of a one-shot lookup) leaves
\* the path absent and sends no path request.
C38_QuietAfterArrival ==
  [][(JustArrived /\ ev'.op \notin UserOps) => (path' = None /\ ev'.issued = 0)]_vars

\* ---- one watch (Spec)
\* C39: at most one location watch is registered, and it is the one whose
\* handle the component holds: a restart of the watch clears the previous
\* handle within the step that registers the new one.
C39_SingleWatch ==
  /\ Cardinality(watches) <= 1
  /\ \A x \in watches : x.id = gpsWatchId

\* The completion of a path request during live navigation changed the
\* inputs of the watch, which was restarted: one watch is registered.
C39_Witness ==
  /\ ev.op = "fetchCompletion"
  /\ isNavigatingWithGps /\ selectedElevator # None
  /\ aiPathInstructions # None
  /\ Cardinality(watches) = 1

\* ---- target of the current plan (Spec)
\* C40: a selected elevator is one of the elevators of the floor plan that
\* is loaded.
C40_TargetOfCurrentPlan ==
  selectedElevator # None =>
    /\ currentFloorPlan # None
    /\ \E i \in 1..Len(currentFloorPlan[1].elevators) :
         currentFloorPlan[1].elevators[i] = selectedElevator[1]

\* A second plan was uploaded and analysed after an elevator of the first
\* had been selected, and an elevator of the second plan is selected.
C40_Witness ==
  /\ currentFloorPlan # None /\ currentFloorPlan[1].id = 2
  /\ selectedElevator # None
  /\ selectedElevator[1] = currentFloorPlan[1].elevators[2]
  /\ Len(requests) > 0 /\ requests[1].plan = 1

====
